---- MODULE Spec2Model ----
(***************************************************************************)
(* B4 frontend: the workflow graph editor (AgentGraph), its host (App),    *)
(* the undo/redo history, the unsaved-changes check and the submit-and-    *)
(* poll execution protocol.                                                *)
(*                                                                         *)
(* Conventions                                                             *)
(*  - A coordinate is an integer number of half pixels, so 1 is 0.5px and  *)
(*    -1 is -0.5px; MathRound is JavaScript's Math.round on that scale.    *)
(*  - A node is a record; position is <<x, y>> or NoPosition (undefined).  *)
(*  - One action is one event-loop task: the handler together with the     *)
(*    React renders and effects it causes (React 18 batches the state      *)
(*    updates of one task and runs the effects of a commit in declaration  *)
(*    order).                                                              *)
(***************************************************************************)
EXTENDS Integers, Sequences, FiniteSets, TLC

VARIABLES
    \* App (src/unnamed/part_003)
    workflowData,        \* the loaded definition = the saved baseline; NoWorkflow is null
    selectedWorkflowId,
    isDirty,
    currentGraphState,
    showUnsavedModal,
    pendingWorkflowId,
    logs,                \* the published log list
    appError,            \* "none", or the uncaught exception that ended a handler
    loads,               \* definition fetches sent and not yet answered
    saves,               \* save requests sent and not yet answered
    server,              \* the definitions the server holds, by id
    \* AgentGraph (src/unnamed/part_000)
    nodes,
    edges,
    history,             \* the snapshots, oldest first
    historyIndex,        \* the cursor, 0-based as in the code; -1 when empty
    isUndoRedoRef,
    \* Execution polling (handleTriggerWorkflow, src/unnamed/part_000)
    now,                 \* the clock, in ms
    submitting,          \* execute requests sent and not yet answered
    executions,          \* one record per execution started, by execution id
    inflight,            \* status requests sent and not yet answered, in issue order
    payload,             \* the body of the last execute request sent
    \* history of the run, for stating properties
    lastPoll,            \* what the last processed status response did
    lastOp,              \* the handler the last step ran
    before,              \* the live graph before the last editor step
    phase,               \* where the run is in load - mutations - undo - redo
    steps,               \* editor steps taken
    liveArrays,          \* which snapshot's arrays the live nodes / edges are
    \* AgentGraph props
    traceData            \* the execution trace to display; NoTrace is null

appVars == <<workflowData, selectedWorkflowId, isDirty, currentGraphState,
             showUnsavedModal, pendingWorkflowId, logs, appError>>

editVars == <<loads, saves, server, nodes, edges, history, historyIndex,
              isUndoRedoRef>>

execVars == <<now, submitting, executions, inflight, payload>>

\* What the execution protocol leaves alone.
uiVars == <<appVars, editVars, before, phase, steps, liveArrays, traceData>>

vars == <<appVars, editVars, execVars, lastPoll, lastOp, before, phase, steps,
          liveArrays, traceData>>

----------------------------------------------------------------------------
(* Values *)

NoId == <<"null", 0>>
NoPosition == <<>>
NoLabel == "undefined"

NoWorkflow == [id |-> NoId, nodes |-> <<>>, edges |-> <<>>]

EmptyGraph == [nodes |-> <<>>, edges |-> <<>>]

\* A node id is <<text, n>>; as a string (a label) it is written text here.
IdText(id) == id[1]

\* A node object.  type is the rendering tag (node.type), dtype the declared
\* kind (data.type); selected, dragging and measured are React Flow's
\* presentational fields; handlers says data.onTextChange / data.onTrigger
\* are present (functions); data says the node has a data object at all
\* (label, text and dtype are undefined without one).
Node(id, position, label) ==
    [id |-> id, position |-> position, data |-> TRUE, label |-> label, text |-> "",
     type |-> "custom", dtype |-> "undefined",
     selected |-> FALSE, dragging |-> FALSE, measured |-> FALSE,
     handlers |-> FALSE, onTrigger |-> "none"]

Edge(id, source, target) ==
    [id |-> id, source |-> source, target |-> target, selected |-> FALSE]

SeqToSet(s) == {s[i] : i \in DOMAIN s}

NodeIdsOf(ns) == {ns[i].id : i \in DOMAIN ns}

\* Math.round(h / 2): the nearest integer, halves rounded towards +infinity
\* (-0 and 0 are equal under !==).
MathRound(h) == (h + 1) \div 2

----------------------------------------------------------------------------
(* hasGraphChanged, src/unnamed/part_003 lines 117-144 *)

\* new Map(list.map(x => [x.id, x])).get(id): the last entry with that id.
MapHas(list, id) == \E i \in DOMAIN list : list[i].id = id

MapGet(list, id) ==
    list[CHOOSE i \in DOMAIN list :
            /\ list[i].id = id
            /\ \A j \in DOMAIN list : list[j].id = id => j <= i]

\* NodeStep with the positions compared as stored, without Math.round.
NodeStepUnrounded(original, currNode) ==
    IF ~MapHas(original.nodes, currNode.id) THEN "true"
    ELSE LET origNode == MapGet(original.nodes, currNode.id) IN
         IF currNode.position = NoPosition \/ origNode.position = NoPosition
         THEN "TypeError"
         ELSE IF currNode.position # origNode.position THEN "true"
         ELSE IF currNode.label # origNode.label THEN "true"
         ELSE "next"

\* One iteration of the node loop: "true" (return true), "next" (fall through
\* to the next node) or "TypeError" (position is undefined, reading .x throws).
NodeStep(original, currNode) ==
    IF ~MapHas(original.nodes, currNode.id) THEN "true"
    ELSE LET origNode == MapGet(original.nodes, currNode.id) IN
         IF currNode.position = NoPosition \/ origNode.position = NoPosition
         THEN "TypeError"
         ELSE IF MathRound(currNode.position[1]) # MathRound(origNode.position[1])
         THEN "true"
         ELSE IF MathRound(currNode.position[2]) # MathRound(origNode.position[2])
         THEN "true"
         ELSE IF currNode.label # origNode.label THEN "true"
         ELSE "next"

EdgeStep(original, currEdge) ==
    IF ~MapHas(original.edges, currEdge.id) THEN "true"
    ELSE LET origEdge == MapGet(original.edges, currEdge.id) IN
         IF currEdge.source # origEdge.source THEN "true"
         ELSE IF currEdge.target # origEdge.target THEN "true"
         ELSE "next"

RECURSIVE EdgeLoop(_, _, _)
EdgeLoop(original, current, i) ==
    IF i > Len(current.edges) THEN "false"
    ELSE LET r == EdgeStep(original, current.edges[i]) IN
         IF r = "next" THEN EdgeLoop(original, current, i + 1) ELSE r

RECURSIVE NodeLoop(_, _, _)
NodeLoop(original, current, i) ==
    IF i > Len(current.nodes) THEN EdgeLoop(original, current, 1)
    ELSE LET r == NodeStep(original, current.nodes[i]) IN
         IF r = "next" THEN NodeLoop(original, current, i + 1) ELSE r

\* The outcome of a call: "true", "false" or "TypeError".
hasGraphChangedOutcome(original, current) ==
    IF original.id = NoId THEN "false"
    ELSE IF Len(original.nodes) # Len(current.nodes) THEN "true"
    ELSE IF Len(original.edges) # Len(current.edges) THEN "true"
    ELSE NodeLoop(original, current, 1)

hasGraphChanged(original, current) ==
    hasGraphChangedOutcome(original, current) = "true"

hasGraphChangedThrows(original, current) ==
    hasGraphChangedOutcome(original, current) = "TypeError"

----------------------------------------------------------------------------
(* App.handleWorkflowChange, src/unnamed/part_003 lines 146-152 *)

\* The state updates of one call, as a record of the new values.  When
\* hasGraphChanged throws, setCurrentGraphState has been queued and
\* setIsDirty has not.
HandleWorkflowChangeResult(wd, state, dirty, graphState, err) ==
    IF wd.id = NoId
    THEN [isDirty |-> dirty, currentGraphState |-> graphState, appError |-> err]
    ELSE IF hasGraphChangedThrows(wd, state)
    THEN [isDirty |-> dirty, currentGraphState |-> state,
          appError |-> "TypeError"]
    ELSE [isDirty |-> hasGraphChanged(wd, state), currentGraphState |-> state,
          appError |-> err]

----------------------------------------------------------------------------
(* AgentGraph: ingestion and the effects of a commit, src/unnamed/part_000  *)

\* Lines 79-99: the flow node built from a definition node.
IngestNode(node) ==
    [id |-> node.id,
     position |-> IF node.position = NoPosition THEN <<0, 0>> ELSE node.position,
     data |-> TRUE,
     label |-> IF node.data THEN node.label ELSE IdText(node.id),
     text |-> node.text,
     type |-> IF node.type \in {"input-text", "textInput"} \/ node.dtype = "input-text"
              THEN "textInput" ELSE "custom",
     dtype |-> node.dtype,
     selected |-> FALSE, dragging |-> FALSE, measured |-> FALSE,
     handlers |-> TRUE, onTrigger |-> "ingestion"]

\* Lines 101-109: the flow edge built from a definition edge.
IngestEdge(edge) ==
    [id |-> edge.id, source |-> edge.source, target |-> edge.target,
     selected |-> FALSE]

IngestNodes(wf) == [i \in DOMAIN wf.nodes |-> IngestNode(wf.nodes[i])]

IngestEdges(wf) == [i \in DOMAIN wf.edges |-> IngestEdge(wf.edges[i])]

\* Line 189: JSON.parse(JSON.stringify(...)) keeps every data field and drops
\* the function-valued ones (data.onTextChange, data.onTrigger).
Snapshot(ns, es) ==
    [nodes |-> [i \in DOMAIN ns |-> [ns[i] EXCEPT !.handlers = FALSE, !.onTrigger = "none"]],
     edges |-> es]

\* prev.slice(0, n)
Slice(s, n) ==
    IF n <= 0 THEN <<>> ELSE IF n >= Len(s) THEN s ELSE SubSeq(s, 1, n)

\* Lines 277-284: the nodes as reported to the host.
ToWorkflowNodes(ns) ==
    [i \in DOMAIN ns |->
        [ns[i] EXCEPT !.dtype = IF ns[i].type = "textInput" THEN "input-text" ELSE @]]

\* The state a render of App and AgentGraph reads.
Component ==
    [nodes |-> nodes, edges |-> edges, history |-> history,
     historyIndex |-> historyIndex, isUndoRedoRef |-> isUndoRedoRef,
     workflowData |-> workflowData, isDirty |-> isDirty,
     currentGraphState |-> currentGraphState, appError |-> appError]

\* A call of the onWorkflowChange prop (App.handleWorkflowChange).
OnWorkflowChange(c, state) ==
    LET r == HandleWorkflowChangeResult(c.workflowData, state, c.isDirty,
                                        c.currentGraphState, c.appError)
    IN  [c EXCEPT !.isDirty = r.isDirty,
                  !.currentGraphState = r.currentGraphState,
                  !.appError = r.appError]

\* Lines 187-197: the history effect, run after a commit that changed nodes
\* or edges.
HistoryEffect(c) ==
    IF c.workflowData.id # NoId /\ Len(c.nodes) > 0 /\ ~c.isUndoRedoRef
    THEN [c EXCEPT !.history = Slice(c.history, c.historyIndex + 1)
                                   \o <<Snapshot(c.nodes, c.edges)>>,
                   !.historyIndex = @ + 1,
                   !.isUndoRedoRef = FALSE]
    ELSE [c EXCEPT !.isUndoRedoRef = FALSE]

\* Lines 274-287: the effect that reports the live graph to the host.
WorkflowChangeEffect(c) ==
    OnWorkflowChange(c, [nodes |-> ToWorkflowNodes(c.nodes), edges |-> c.edges])

\* The effects of a commit in which nodes or edges changed, in declaration
\* order.
GraphCommit(c) == WorkflowChangeEffect(HistoryEffect(c))

\* App.loadWorkflow lines 173-177 with workflow wf, and the two commits that
\* follow: in the first the graph still holds the old nodes and the report
\* effect runs because the onWorkflowChange prop is a new function, and the
\* ingestion effect (lines 76-114) queues the new nodes; the second renders
\* them.
LoadCommit(c, wf) ==
    LET c0 == [c EXCEPT !.workflowData = wf, !.isDirty = FALSE,
                        !.currentGraphState = [nodes |-> wf.nodes, edges |-> wf.edges]]
        c1 == WorkflowChangeEffect(c0)
    IN  GraphCommit([c1 EXCEPT !.nodes = IngestNodes(wf), !.edges = IngestEdges(wf)])

\* App.saveWorkflow lines 105-106 with the saved definition wf, and the two
\* commits that follow as for a load: the new workflowData is ingested again.
SaveCommit(c, wf) ==
    LET c0 == [c EXCEPT !.workflowData = wf, !.isDirty = FALSE]
        c1 == WorkflowChangeEffect(c0)
    IN  GraphCommit([c1 EXCEPT !.nodes = IngestNodes(wf), !.edges = IngestEdges(wf)])

\* JSON.stringify of a definition (the request body): functions are dropped.
Stored(wf) ==
    [wf EXCEPT !.nodes = [i \in DOMAIN wf.nodes |->
                             [wf.nodes[i] EXCEPT !.handlers = FALSE,
                                                 !.onTrigger = "none"]]]

\* The component state c becomes the state.
Install(c) ==
    \E v \in {c} :
        /\ nodes' = v.nodes
        /\ edges' = v.edges
        /\ history' = v.history
        /\ historyIndex' = v.historyIndex
        /\ isUndoRedoRef' = v.isUndoRedoRef
        /\ workflowData' = v.workflowData
        /\ isDirty' = v.isDirty
        /\ currentGraphState' = v.currentGraphState
        /\ appError' = v.appError

\* The definitions the server holds at the start: one with a text input and
\* an agent, one as the sidebar's New Workflow creates it (src/unnamed/part_002
\* lines 154-159: nodes [] and edges []), and one whose only node has no data
\* object (the case line 83 provides for).
InputNodeId == <<"a", 0>>

AgentNodeId == <<"b", 0>>

BareNodeId == <<"c", 0>>

ServerWorkflows ==
    {[id |-> <<"wf", 1>>,
      nodes |-> <<[Node(InputNodeId, <<0, 0>>, "Input")
                      EXCEPT !.type = "textInput", !.dtype = "input-text"],
                  Node(AgentNodeId, <<800, 0>>, "Agent")>>,
      edges |-> <<>>],
     [id |-> <<"wf", 2>>, nodes |-> <<>>, edges |-> <<>>],
     [id |-> <<"wf", 3>>,
      nodes |-> <<[Node(BareNodeId, <<0, 0>>, NoLabel) EXCEPT !.data = FALSE]>>,
      edges |-> <<>>]}

WorkflowIds == {w.id : w \in ServerWorkflows}

ServerCatalog == [id \in WorkflowIds |-> CHOOSE w \in ServerWorkflows : w.id = id]

\* The answer to GET /api/workflows/${id}.
ServerWorkflow(id) == server[id]

\* Neither live array is an array of a stored snapshot.
NoArrays == [nodes |-> 0, edges |-> 0]

\* traceData null.
NoTrace == [steps |-> <<>>, present |-> FALSE]

NoBefore == [nodes |-> <<>>, edges |-> <<>>, historyIndex |-> -1]

\* The graph component as it stands once definition wf is on screen and
\* nothing has been edited (NoWorkflow: as mounted, lines 61-65).
Mounted(wf, trace) ==
    /\ loads = <<>>
    /\ saves = <<>>
    /\ server = IF wf.id = NoId THEN ServerCatalog ELSE (wf.id :> wf) @@ ServerCatalog
    /\ liveArrays = NoArrays
    /\ traceData = trace
    /\ nodes = IngestNodes(wf)
    /\ edges = IngestEdges(wf)
    /\ history = IF wf.id # NoId /\ Len(wf.nodes) > 0
                 THEN <<Snapshot(IngestNodes(wf), IngestEdges(wf))>> ELSE <<>>
    /\ historyIndex = IF wf.id # NoId /\ Len(wf.nodes) > 0 THEN 0 ELSE -1
    /\ isUndoRedoRef = FALSE
    /\ before = NoBefore
    /\ phase = "other"
    /\ steps = 0

EditLoaded(wf) == Mounted(wf, NoTrace)

----------------------------------------------------------------------------
(* No execution has been started. *)

\* No execute request has been sent.
NoPayload == [sent |-> FALSE, id |-> NoId, nodes |-> <<>>, edges |-> <<>>]

\* JSON.stringify of node.data: label, text and type; the functions are
\* dropped.
PayloadData(n) == [label |-> n.label, text |-> n.text, type |-> n.dtype]

\* handleTriggerWorkflow lines 314-319 and JSON.stringify (line 332): the
\* entry of node n; a type that is undefined is left out of the JSON text.
PayloadNode(n) ==
    LET type == IF n.dtype # "undefined" THEN n.dtype ELSE n.type
    IN  IF type = "undefined"
        THEN [id |-> n.id, position |-> n.position, data |-> PayloadData(n)]
        ELSE [id |-> n.id, type |-> type, position |-> n.position,
              data |-> PayloadData(n)]

\* Lines 320-324: the entry of edge e.
PayloadEdge(e) == [id |-> e.id, source |-> e.source, target |-> e.target]

\* Lines 312-325: executionWorkflow for the definition wf of the closure and
\* the arrays of nodesRef / edgesRef.
ExecutionPayload(wf, ns, es) ==
    [sent |-> TRUE, id |-> wf.id,
     nodes |-> [i \in DOMAIN ns |-> PayloadNode(ns[i])],
     edges |-> [k \in DOMAIN es |-> PayloadEdge(es[k])]]

NoPoll == [exec |-> 0, delivered |-> <<>>, before |-> <<>>, stale |-> FALSE,
           finishedBefore |-> "none", timerBefore |-> FALSE]

ExecIdle ==
    /\ now = 0
    /\ submitting = 0
    /\ payload = NoPayload
    /\ executions = <<>>
    /\ inflight = <<>>
    /\ lastPoll = NoPoll

----------------------------------------------------------------------------
(* Specification SpecDirty: the dirty check on bounded inputs.             *)
(* Init draws the saved baseline, the action delivers a live graph to      *)
(* handleWorkflowChange.                                                   *)

DirtyIds == {<<"n", 1>>, <<"n", 2>>}

DirtyLabels == {"A", "B"}

BaselinePositions == {NoPosition, <<0, 0>>}

LivePositions == {<<0, 0>>, <<-1, 0>>, <<1, 0>>, <<0, 1>>}

BaselineNodes ==
    {Node(id, p, l) : id \in DirtyIds, p \in BaselinePositions, l \in DirtyLabels}

LiveNodes ==
    {[Node(id, p, l) EXCEPT !.selected = s, !.measured = s, !.handlers = TRUE] :
        id \in DirtyIds, p \in LivePositions, l \in DirtyLabels, s \in BOOLEAN}

UpToTwo(S) == {<<>>} \cup {<<a>> : a \in S} \cup {<<a, b>> : a \in S, b \in S}

DirtyEdges ==
    {Edge(<<"e", 1>>, <<"n", 1>>, <<"n", 2>>),
     Edge(<<"e", 1>>, <<"n", 2>>, <<"n", 1>>),
     Edge(<<"e", 1>>, <<"n", 1>>, <<"n", 1>>),
     Edge(<<"e", 2>>, <<"n", 1>>, <<"n", 2>>)}

NoDangling(g) ==
    \A i \in DOMAIN g.edges :
        /\ g.edges[i].source \in NodeIdsOf(g.nodes)
        /\ g.edges[i].target \in NodeIdsOf(g.nodes)

DistinctIds(ns) == \A i, j \in DOMAIN ns : ns[i].id = ns[j].id => i = j

Baselines ==
    {[id |-> <<"wf", 1>>, nodes |-> ns, edges |-> es] :
        ns \in {n \in UpToTwo(BaselineNodes) : DistinctIds(n)},
        es \in {<<>>} \cup {<<e>> : e \in {d \in DirtyEdges : d.id = <<"e", 1>>}}}

LiveGraphs ==
    {[nodes |-> ns, edges |-> es] :
        ns \in {n \in UpToTwo(LiveNodes) : DistinctIds(n)},
        es \in {<<>>} \cup {<<e>> : e \in DirtyEdges}}

InitDirty ==
    /\ workflowData \in {b \in Baselines : NoDangling(b)}
    /\ selectedWorkflowId = workflowData.id
    /\ isDirty = FALSE
    /\ currentGraphState = [nodes |-> workflowData.nodes, edges |-> workflowData.edges]
    /\ showUnsavedModal = FALSE
    /\ pendingWorkflowId = NoId
    /\ logs = <<>>
    /\ appError = "none"
    /\ EditLoaded(workflowData)
    /\ ExecIdle
    /\ lastOp = "init"

\* The graph component reports its live graph (part_000 line 285).
HandleWorkflowChange ==
    /\ lastOp = "init"
    /\ \E state \in {g \in LiveGraphs : NoDangling(g)} :
          LET r == HandleWorkflowChangeResult(workflowData, state, isDirty,
                                              currentGraphState, appError) IN
          /\ isDirty' = r.isDirty
          /\ currentGraphState' = r.currentGraphState
          /\ appError' = r.appError
    /\ lastOp' = "handleWorkflowChange"
    /\ UNCHANGED <<workflowData, selectedWorkflowId, showUnsavedModal,
                   pendingWorkflowId, logs, editVars, execVars, lastPoll,
                   before, phase, steps, liveArrays,
                   traceData>>

NextDirty == HandleWorkflowChange

SpecDirty == InitDirty /\ [][NextDirty]_vars

----------------------------------------------------------------------------
(* C10: the dirty policy *)

\* The integer nearest to h half pixels, ties upwards, stated as a bracket.
NearestInteger(h) ==
    CHOOSE k \in -(h * h + 1) .. (h * h + 1) : 2 * k - 1 <= h /\ h < 2 * k + 1

BaselineNode(b, id) == CHOOSE n \in SeqToSet(b.nodes) : n.id = id

BaselineEdge(b, id) == CHOOSE e \in SeqToSet(b.edges) : e.id = id

CountsDiffer(b, g) ==
    Len(b.nodes) # Len(g.nodes) \/ Len(b.edges) # Len(g.edges)

\* A node present in both whose rounded x or y, or whose label, differs.
NodeDiffers(b, n) ==
    /\ n.id \in NodeIdsOf(b.nodes)
    /\ LET o == BaselineNode(b, n.id) IN
       \/ o.position = NoPosition
       \/ NearestInteger(n.position[1]) # NearestInteger(o.position[1])
       \/ NearestInteger(n.position[2]) # NearestInteger(o.position[2])
       \/ n.label # o.label

\* An edge present in both (matched by id) with another source or target.
EdgeDiffers(b, e) ==
    /\ e.id \in {x.id : x \in SeqToSet(b.edges)}
    /\ LET o == BaselineEdge(b, e.id) IN e.source # o.source \/ e.target # o.target

\* The policy as the claim states it.
ClaimedPolicy(b, g) ==
    \/ CountsDiffer(b, g)
    \/ \E i \in DOMAIN g.nodes : NodeDiffers(b, g.nodes[i])
    \/ \E i \in DOMAIN g.edges : EdgeDiffers(b, g.edges[i])

\* The original statement of C10: whenever the check reaches a decision, the
\* decision equals the claimed policy.
C10_ClaimedPolicy ==
    (lastOp = "handleWorkflowChange" /\ appError = "none") =>
        isDirty = ClaimedPolicy(workflowData, currentGraphState)

\* How the scan of the live nodes treats one node.
NodeClass(b, n) ==
    IF n.id \notin NodeIdsOf(b.nodes) THEN "absent"
    ELSE IF BaselineNode(b, n.id).position = NoPosition THEN "unplaced"
    ELSE IF NodeDiffers(b, n) THEN "differs"
    ELSE "same"

FirstDecisive(b, g, classes) ==
    \E i \in DOMAIN g.nodes :
        /\ NodeClass(b, g.nodes[i]) \in classes
        /\ \A j \in 1 .. (i - 1) : NodeClass(b, g.nodes[j]) = "same"

AmendedRaises(b, g) ==
    ~CountsDiffer(b, g) /\ FirstDecisive(b, g, {"unplaced"})

AmendedPolicy(b, g) ==
    \/ CountsDiffer(b, g)
    \/ FirstDecisive(b, g, {"absent", "differs"})
    \/ /\ \A i \in DOMAIN g.nodes : NodeClass(b, g.nodes[i]) = "same"
       /\ \E i \in DOMAIN g.edges :
             \/ g.edges[i].id \notin {x.id : x \in SeqToSet(b.edges)}
             \/ EdgeDiffers(b, g.edges[i])

\* What the dirty check reads of a graph.
Essence(g) ==
    [nodes |-> [i \in DOMAIN g.nodes |->
                   <<g.nodes[i].id, NearestInteger(g.nodes[i].position[1]),
                     NearestInteger(g.nodes[i].position[2]), g.nodes[i].label>>],
     edges |-> [i \in DOMAIN g.edges |->
                   <<g.edges[i].id, g.edges[i].source, g.edges[i].target>>]]

Placed(g) == \A i \in DOMAIN g.nodes : g.nodes[i].position # NoPosition

\* C10 (amended): the dirty decision is: dirty if the node or edge counts
\* differ; else the first live node, in order, that is absent from the
\* baseline or whose rounded x, rounded y or label differs makes the graph
\* dirty, and a baseline node without a stored position reached before any
\* such node makes the check raise a TypeError with no decision; else dirty
\* if a live edge is absent from the baseline or has another source or
\* target; otherwise clean.  A live graph that differs from a placed baseline
\* only in presentational fields or by sub-integer moves is clean.
C10_DirtyPolicy ==
    lastOp = "handleWorkflowChange" =>
        /\ (appError = "TypeError") = AmendedRaises(workflowData, currentGraphState)
        /\ (appError = "none" =>
              isDirty = AmendedPolicy(workflowData, currentGraphState))
        /\ (Placed(workflowData) /\
            Essence(workflowData) = Essence(currentGraphState)) =>
              (appError = "none" /\ ~isDirty)

\* A same-size live graph holding a node the baseline does not have is dirty.
C10_Witness ==
    /\ lastOp = "handleWorkflowChange"
    /\ isDirty
    /\ ~CountsDiffer(workflowData, currentGraphState)
    /\ \E i \in DOMAIN currentGraphState.nodes :
          currentGraphState.nodes[i].id \notin NodeIdsOf(workflowData.nodes)
    /\ ~ClaimedPolicy(workflowData, currentGraphState)

----------------------------------------------------------------------------
(* Execution: handleTriggerWorkflow, src/unnamed/part_000 lines 299-372    *)

PollIntervalMs == 500
CapMs == 60000

MaxExecutions == 2      \* executions started in one run
MaxInFlight == 2        \* status requests outstanding at once
MaxLogs == 2            \* entries in a delivered log list
MaxTicks == 2           \* poll periods observed by SpecExec
CapInFlight == 1        \* status requests outstanding at once in SpecCap

\* The limits a specification explores within: executions started, status
\* requests outstanding, the time observed and the time by which every
\* execution has been requested.
ExecLimits == [executions |-> MaxExecutions, inflight |-> MaxInFlight,
               horizon |-> MaxTicks * PollIntervalMs,
               startBy |-> (MaxTicks - 1) * PollIntervalMs]

\* One execution, followed until its cap has passed.
CapLimits == [executions |-> 1, inflight |-> CapInFlight,
              horizon |-> CapMs + PollIntervalMs, startBy |-> 0]

PollStates == {"running", "completed", "failed"}

\* The log list the server delivers for execution e when it holds k entries.
Delivered(e, k) == [n \in 1 .. k |-> <<e, n>>]

Execution(startedAt) ==
    [timer |-> TRUE,                \* the setInterval handle is live
     cap |-> TRUE,                  \* the setTimeout is pending
     started |-> startedAt,
     nextTick |-> startedAt + PollIntervalMs,
     finished |-> "none"]           \* the state reported as finished (console)

ExecIds == DOMAIN executions

TickDue(e) == executions[e].timer /\ executions[e].nextTick <= now

CapDue(e) == executions[e].cap /\ executions[e].started + CapMs <= now

RemoveAt(s, i) == [j \in 1 .. (Len(s) - 1) |-> IF j < i THEN s[j] ELSE s[j + 1]]

\* The requests issued before request i have been overtaken by a publication.
MarkStale(s, i) == [j \in DOMAIN s |-> IF j < i THEN [s[j] EXCEPT !.stale = TRUE] ELSE s[j]]

\* Lines 299-306: the run action with no workflow loaded returns at once.
TriggerNoWorkflow ==
    /\ workflowData.id = NoId
    /\ lastOp # "triggerNoWorkflow"
    /\ lastOp' = "triggerNoWorkflow"
    /\ lastPoll' = NoPoll
    /\ UNCHANGED <<uiVars, execVars>>

\* Lines 299-334: the run action sends the execute request.  Nothing is
\* cancelled here: a poll timer of an earlier execution stays live.
TriggerWorkflow(lim) ==
    /\ workflowData.id # NoId
    /\ submitting + Len(executions) < lim.executions
    /\ now <= lim.startBy
    /\ submitting' = submitting + 1
    /\ payload' = ExecutionPayload(workflowData, nodes, edges)
    /\ lastOp' = "trigger"
    /\ lastPoll' = NoPoll
    /\ UNCHANGED <<uiVars, now, executions, inflight>>

\* Lines 336-365: the execute response is OK: setInterval and setTimeout.
ExecuteResponseOk ==
    /\ submitting > 0
    /\ submitting' = submitting - 1
    /\ executions' = Append(executions, Execution(now))
    /\ lastOp' = "executeOk"
    /\ lastPoll' = NoPoll
    /\ UNCHANGED <<uiVars, payload, now, inflight>>

ExecuteResponseFailPolls ==
    /\ submitting > 0
    /\ submitting' = submitting - 1
    /\ executions' = Append(executions, Execution(now))
    /\ lastOp' = "executeFail"
    /\ lastPoll' = NoPoll
    /\ UNCHANGED <<uiVars, payload, now, inflight>>

\* Lines 366-371: a non-OK response or a network error is logged to the console.
ExecuteResponseFail ==
    /\ submitting > 0
    /\ submitting' = submitting - 1
    /\ lastOp' = "executeFail"
    /\ lastPoll' = NoPoll
    /\ UNCHANGED <<uiVars, payload, now, executions, inflight>>

\* Lines 342-344: the interval fires and the callback sends a status request.
PollTick(e, lim) ==
    /\ TickDue(e)
    /\ Len(inflight) < lim.inflight
    /\ inflight' = Append(inflight, [exec |-> e, stale |-> FALSE])
    /\ executions' = [executions EXCEPT ![e].nextTick = @ + PollIntervalMs]
    /\ lastOp' = "pollTick"
    /\ lastPoll' = NoPoll
    /\ UNCHANGED <<uiVars, payload, now, submitting>>

\* The poll response handler appending the delivered entries to the list.
PollResponseOkAppend(i, st, k) ==
    LET e == inflight[i].exec
        delivered == Delivered(e, k)
        publish == Len(delivered) > 0
    IN  /\ logs' = IF publish THEN logs \o delivered ELSE logs
        /\ executions' = IF st \in {"completed", "failed"}
                         THEN [executions EXCEPT ![e].timer = FALSE, ![e].finished = st]
                         ELSE executions
        /\ inflight' = RemoveAt(IF publish THEN MarkStale(inflight, i) ELSE inflight, i)
        /\ lastPoll' = [exec |-> e, delivered |-> delivered, before |-> logs,
                        stale |-> inflight[i].stale,
                        finishedBefore |-> executions[e].finished,
                        timerBefore |-> executions[e].timer]
        /\ lastOp' = "pollOk"
        /\ UNCHANGED <<workflowData, selectedWorkflowId, isDirty, currentGraphState,
                       showUnsavedModal, pendingWorkflowId, appError, now, submitting, payload,
                       editVars, before, phase, steps, liveArrays,
                   traceData>>

\* Lines 345-358: an OK status response {state: st, logs: k entries}.
\* setLogs replaces the list when the delivered list is not empty;
\* clearInterval on completed or failed.  The setTimeout stays pending.
PollResponseOk(i, st, k) ==
    LET e == inflight[i].exec
        delivered == Delivered(e, k)
        publish == Len(delivered) > 0
    IN  /\ logs' = IF publish THEN delivered ELSE logs
        /\ executions' = IF st \in {"completed", "failed"}
                         THEN [executions EXCEPT ![e].timer = FALSE, ![e].finished = st]
                         ELSE executions
        /\ inflight' = RemoveAt(IF publish THEN MarkStale(inflight, i) ELSE inflight, i)
        /\ lastPoll' = [exec |-> e, delivered |-> delivered, before |-> logs,
                        stale |-> inflight[i].stale,
                        finishedBefore |-> executions[e].finished,
                        timerBefore |-> executions[e].timer]
        /\ lastOp' = "pollOk"
        /\ UNCHANGED <<workflowData, selectedWorkflowId, isDirty, currentGraphState,
                       showUnsavedModal, pendingWorkflowId, appError, now, submitting, payload,
                       editVars, before, phase, steps, liveArrays,
                   traceData>>

\* The failed poll tick treated as the end of polling.
PollResponseFailStops(i) ==
    LET e == inflight[i].exec
    IN  /\ inflight' = RemoveAt(inflight, i)
        /\ executions' = [executions EXCEPT ![e].timer = FALSE]
        /\ lastPoll' = [NoPoll EXCEPT !.exec = e, !.before = logs,
                                      !.finishedBefore = executions[e].finished,
                                      !.timerBefore = executions[e].timer]
        /\ lastOp' = "pollFail"
        /\ UNCHANGED <<uiVars, payload, now, submitting>>

\* Lines 345 and 359-361: a non-OK status response, or a network error caught
\* by the callback's catch: nothing is published, the interval stays live.
PollResponseFail(i) ==
    LET e == inflight[i].exec
    IN  /\ inflight' = RemoveAt(inflight, i)
        /\ lastPoll' = [NoPoll EXCEPT !.exec = e, !.before = logs,
                                      !.finishedBefore = executions[e].finished,
                                      !.timerBefore = executions[e].timer]
        /\ lastOp' = "pollFail"
        /\ UNCHANGED <<uiVars, payload, now, submitting, executions>>

\* The cap timer forgetting to clear the interval.
CapFireNoClear(e) ==
    /\ CapDue(e)
    /\ executions' = [executions EXCEPT ![e].cap = FALSE]
    /\ lastOp' = "capFire"
    /\ lastPoll' = NoPoll
    /\ UNCHANGED <<uiVars, payload, now, submitting, inflight>>

\* Line 365: the setTimeout fires after CapMs: clearInterval, nothing else.
CapFire(e) ==
    /\ CapDue(e)
    /\ executions' = [executions EXCEPT ![e].cap = FALSE, ![e].timer = FALSE]
    /\ lastOp' = "capFire"
    /\ lastPoll' = NoPoll
    /\ UNCHANGED <<uiVars, payload, now, submitting, inflight>>

\* The clock moves on by one poll period once every timer that is due has
\* fired.  An execute request is answered within the start window.
AdvanceTime(lim) ==
    /\ \E e \in ExecIds : executions[e].timer \/ executions[e].cap
    /\ now < lim.horizon
    /\ \A e \in ExecIds : ~TickDue(e) /\ ~CapDue(e)
    /\ submitting > 0 => now < lim.startBy
    /\ now' = now + PollIntervalMs
    /\ lastOp' = "advanceTime"
    /\ lastPoll' = NoPoll
    /\ UNCHANGED <<uiVars, payload, submitting, executions, inflight>>

ExecWorkflow ==
    [id |-> <<"wf", 1>>,
     nodes |-> <<Node(<<"n", 1>>, <<0, 0>>, "A")>>,
     edges |-> <<>>]

InitExec ==
    /\ workflowData \in {NoWorkflow, ExecWorkflow}
    /\ selectedWorkflowId = workflowData.id
    /\ isDirty = FALSE
    /\ currentGraphState = [nodes |-> workflowData.nodes, edges |-> workflowData.edges]
    /\ showUnsavedModal = FALSE
    /\ pendingWorkflowId = NoId
    /\ logs = <<>>
    /\ appError = "none"
    /\ EditLoaded(workflowData)
    /\ ExecIdle
    /\ lastOp = "init"

NextExec ==
    \/ TriggerNoWorkflow
    \/ TriggerWorkflow(ExecLimits)
    \/ ExecuteResponseOk
    \/ ExecuteResponseFail
    \/ \E e \in ExecIds : PollTick(e, ExecLimits)
    \/ \E i \in DOMAIN inflight, st \in PollStates, k \in 0 .. MaxLogs :
          PollResponseOk(i, st, k)
    \/ \E i \in DOMAIN inflight : PollResponseFail(i)
    \/ AdvanceTime(ExecLimits)

SpecExec == InitExec /\ [][NextExec]_vars

\* Specification SpecCap: one execution followed to its cap.
NextCap ==
    \/ TriggerWorkflow(CapLimits)
    \/ ExecuteResponseOk
    \/ ExecuteResponseFail
    \/ \E e \in ExecIds : PollTick(e, CapLimits)
    \/ \E i \in DOMAIN inflight, st \in PollStates, k \in 0 .. MaxLogs :
          PollResponseOk(i, st, k)
    \/ \E i \in DOMAIN inflight : PollResponseFail(i)
    \/ \E e \in ExecIds : CapFire(e)
    \/ AdvanceTime(CapLimits)

InitCap == InitExec /\ workflowData = ExecWorkflow

SpecCap == InitCap /\ [][NextCap]_vars

----------------------------------------------------------------------------
(* C4 - C9: the poll protocol *)

ActiveTimers == {e \in ExecIds : executions[e].timer}

Terminal == {"completed", "failed"}

\* C4: at every point at most one poll timer is active: starting a new
\* execution cancels the poll timer of the previous one.
C4_SinglePoller == Cardinality(ActiveTimers) <= 1

\* C5: once a terminal response has been processed for an execution, its
\* poll timer is off and no later response of that execution publishes logs
\* or changes its state, the responses of requests already in flight included.
C5_QuietAfterTerminal ==
    /\ \A e \in ExecIds : executions[e].finished \in Terminal => ~executions[e].timer
    /\ (lastOp = "pollOk" /\ lastPoll.finishedBefore \in Terminal) =>
          /\ logs = lastPoll.before
          /\ executions[lastPoll.exec].finished = lastPoll.finishedBefore

C7_NoStalePublication ==
    (lastOp = "pollOk" /\ Len(lastPoll.delivered) > 0) => ~lastPoll.stale

\* C8 as stated: every processed OK response sets the published list to the
\* delivered list, the empty list included.
C8_AlwaysReplaces == lastOp = "pollOk" => logs = lastPoll.delivered

\* C8 (amended): a processed OK response that delivers a non-empty list sets
\* the published list to exactly that list (replace, not append); one that
\* delivers an empty list leaves the published list as it was.
C8_ReplacesWhenNonEmpty ==
    lastOp = "pollOk" =>
        logs = IF Len(lastPoll.delivered) > 0 THEN lastPoll.delivered
               ELSE lastPoll.before

\* A shorter delivered list has replaced a longer published one.
C8_Witness ==
    /\ lastOp = "pollOk"
    /\ Len(lastPoll.delivered) > 0
    /\ Len(lastPoll.before) > Len(lastPoll.delivered)
    /\ logs = lastPoll.delivered

\* C9: a failed poll tick publishes nothing, leaves the poll timer as it was
\* and reports no terminal state; while the timer is live its next tick is
\* issued when due.
C9_FailedTickTolerated ==
    lastOp = "pollFail" =>
        LET e == lastPoll.exec IN
        /\ logs = lastPoll.before
        /\ executions[e].timer = lastPoll.timerBefore
        /\ executions[e].finished = lastPoll.finishedBefore
        /\ TickDue(e) => ENABLED PollTick(e, CapLimits)

\* A failed tick with the timer still live and the next tick due.
C9_Witness ==
    /\ lastOp = "pollFail"
    /\ executions[lastPoll.exec].timer
    /\ lastPoll.finishedBefore = "none"
    /\ TickDue(lastPoll.exec)
    /\ ENABLED PollTick(lastPoll.exec, CapLimits)

----------------------------------------------------------------------------
(* Specification SpecEdit: the editor.  The app starts with nothing loaded; *)
(* the user picks definitions in the sidebar, edits the graph, and uses     *)
(* undo and redo.                                                           *)

MaxNodes == 3           \* nodes on the canvas
MaxSteps == 5           \* editor steps in a run
MaxClock == 1           \* milliseconds of Date.now() observed
MaxLoads == 1           \* definition fetches outstanding at once
MaxSaves == 1           \* save requests outstanding at once

PaletteTypes == {"input-text"}

DropPositions == {<<600, 600>>}

DragPositions == {<<250, 250>>}

Texts == {"hi"}

LiveGraph == [nodes |-> nodes, edges |-> edges]

\* The bookkeeping of an editor step that sets the traceData prop.
EditStepTrace(op, ph, trace) ==
    /\ lastOp' = op
    /\ phase' = ph
    /\ before' = [nodes |-> nodes, edges |-> edges, historyIndex |-> historyIndex]
    /\ steps < MaxSteps
    /\ steps' = steps + 1
    /\ traceData' = trace
    /\ UNCHANGED lastPoll

\* A step of a handler that leaves the traceData prop as it is.
EditStep(op, ph) == EditStepTrace(op, ph, traceData)

\* A mutation continues the run of mutations that follows a load.
AfterMutation == IF phase \in {"loaded", "mutated"} THEN "mutated" ELSE "other"

\* The pointer reaches the canvas and its buttons: the unsaved-changes modal
\* covers them (part_003 lines 298-299).
CanvasReachable == appError = "none" /\ ~showUnsavedModal

\* The handler leaves the state of both components as it is.
KeepComponent ==
    UNCHANGED <<nodes, edges, history, historyIndex, isUndoRedoRef, workflowData,
                isDirty, currentGraphState, appError, liveArrays>>

\* What no handler of the graph component touches.
KeepHost ==
    UNCHANGED <<selectedWorkflowId, showUnsavedModal, pendingWorkflowId, logs,
                loads, saves, server>>

\* setNodes / setEdges were given new arrays (fresh), or were not called.
FreshArrays(freshNodes, freshEdges) ==
    liveArrays' = [nodes |-> IF freshNodes THEN 0 ELSE liveArrays.nodes,
                   edges |-> IF freshEdges THEN 0 ELSE liveArrays.edges]

\* loadWorkflow up to the fetch (part_003 lines 166-170); via tells which
\* decision sent it and from which workflow was selected until then.
StartLoad(id, via) ==
    /\ Len(loads) < MaxLoads
    /\ selectedWorkflowId' = id
    /\ loads' = Append(loads, [id |-> id, via |-> via, from |-> selectedWorkflowId])

\* saveWorkflow up to the fetch (part_003 lines 86-101); next is the workflow
\* handleModalAction loads after a successful save, NoId for the Save button.
StartSave(next) ==
    /\ Len(saves) < MaxSaves
    /\ saves' = Append(saves,
                       [wf |-> [workflowData EXCEPT !.nodes = currentGraphState.nodes,
                                                    !.edges = currentGraphState.edges],
                        next |-> next])

\* App.handleSelectWorkflow, part_003 lines 154-164.
SelectWorkflow(id) ==
    /\ appError = "none"
    /\ selectedWorkflowId # id
    /\ IF isDirty
       THEN /\ pendingWorkflowId' = id
            /\ showUnsavedModal' = TRUE
            /\ UNCHANGED <<selectedWorkflowId, loads>>
       ELSE /\ StartLoad(id, "select")
            /\ UNCHANGED <<pendingWorkflowId, showUnsavedModal>>
    /\ EditStep("selectWorkflow", "other")
    /\ KeepComponent
    /\ UNCHANGED <<logs, saves, server, execVars>>

\* App.handleModalAction, part_003 lines 184-199.
ModalAction(action) ==
    /\ appError = "none"
    /\ showUnsavedModal
    /\ showUnsavedModal' = FALSE
    /\ CASE action = "save" ->
              /\ StartSave(pendingWorkflowId)
              /\ UNCHANGED <<selectedWorkflowId, loads, pendingWorkflowId>>
         [] action = "discard" ->
              /\ IF pendingWorkflowId # NoId
                 THEN StartLoad(pendingWorkflowId, "discard")
                 ELSE UNCHANGED <<selectedWorkflowId, loads>>
              /\ UNCHANGED <<pendingWorkflowId, saves>>
         [] OTHER ->
              /\ pendingWorkflowId' = NoId
              /\ UNCHANGED <<selectedWorkflowId, loads, saves>>
    /\ EditStep(action, "other")
    /\ KeepComponent
    /\ UNCHANGED <<logs, server, execVars>>

\* The Save button of the header, part_003 lines 270-277 and 86-101.
SaveWorkflow ==
    /\ appError = "none"
    /\ workflowData.id # NoId
    /\ StartSave(NoId)
    /\ EditStep("save", "other")
    /\ KeepComponent
    /\ UNCHANGED <<selectedWorkflowId, showUnsavedModal, pendingWorkflowId, logs,
                   loads, server, execVars>>

\* saveWorkflow lines 103-108: the server has stored the definition and
\* answers OK; handleModalAction lines 188-190 then loads the pending one.
SaveResponseOk(i) ==
    /\ appError = "none"
    /\ saves' = RemoveAt(saves, i)
    /\ server' = [server EXCEPT ![saves[i].wf.id] = Stored(saves[i].wf)]
    /\ Install(SaveCommit(Component, saves[i].wf))
    /\ FreshArrays(TRUE, TRUE)
    /\ IF saves[i].next # NoId
       THEN StartLoad(saves[i].next, "save")
       ELSE UNCHANGED <<selectedWorkflowId, loads>>
    /\ EditStep("saveOk", "other")
    /\ UNCHANGED <<showUnsavedModal, pendingWorkflowId, logs, execVars>>

\* saveWorkflow lines 103 and 109-113: a non-OK answer or a network error.
SaveResponseFail(i) ==
    /\ appError = "none"
    /\ saves' = RemoveAt(saves, i)
    /\ EditStep("saveFail", "other")
    /\ KeepComponent
    /\ UNCHANGED <<selectedWorkflowId, showUnsavedModal, pendingWorkflowId, logs,
                   loads, server, execVars>>

\* App.loadWorkflow lines 171-178: the fetch is answered OK.
LoadResponseOk(i) ==
    /\ appError = "none"
    /\ loads' = RemoveAt(loads, i)
    /\ logs' = <<>>
    /\ Install(LoadCommit(Component, ServerWorkflow(loads[i].id)))
    /\ FreshArrays(TRUE, TRUE)
    /\ EditStepTrace("load", "loaded", NoTrace)
    /\ UNCHANGED <<selectedWorkflowId, showUnsavedModal, pendingWorkflowId, saves,
                   server, execVars>>

\* App.loadWorkflow lines 171 and 179-181: a non-OK answer or a network error.
LoadResponseFail(i) ==
    /\ appError = "none"
    /\ loads' = RemoveAt(loads, i)
    /\ EditStep("loadFail", "other")
    /\ KeepComponent
    /\ UNCHANGED <<selectedWorkflowId, showUnsavedModal, pendingWorkflowId, logs,
                   saves, server, execVars>>

\* Date.now() read by a handler: the clock has moved on by tick ms since it
\* was last read.
ReadClock(tick) ==
    /\ now + tick <= MaxClock
    /\ now' = now + tick
    /\ UNCHANGED <<submitting, executions, inflight, payload>>

\* addNode, lines 376-404.
AddNode(tick) ==
    /\ CanvasReachable
    /\ Len(nodes) < MaxNodes
    /\ ReadClock(tick)
    /\ LET newNode == [Node(<<"new_node", now'>>, <<200, 200>>, "New Node")
                          EXCEPT !.type = "undefined"]
       IN  Install(GraphCommit([Component EXCEPT !.nodes = Append(nodes, newNode)]))
    /\ FreshArrays(TRUE, FALSE)
    /\ EditStep("addNode", AfterMutation)
    /\ KeepHost

\* onDrop, lines 411-454, of a palette entry whose label is its type.
OnDrop(nodeType, position, tick) ==
    /\ CanvasReachable
    /\ Len(nodes) < MaxNodes
    /\ ReadClock(tick)
    /\ LET newNode == [Node(<<nodeType, now'>>, position, nodeType)
                          EXCEPT !.type = IF nodeType = "input-text"
                                          THEN "textInput" ELSE "custom",
                                 !.dtype = nodeType,
                                 !.handlers = TRUE,
                                 !.onTrigger = "mount"]
       IN  Install(GraphCommit([Component EXCEPT !.nodes = Append(nodes, newNode)]))
    /\ FreshArrays(TRUE, FALSE)
    /\ EditStep("drop", AfterMutation)
    /\ KeepHost

\* onConnect, line 374: addEdge appends an edge unless one with the same
\* source and target exists (then the list is returned as it is and nothing
\* renders).  A text input has no target handle (part_001).
OnConnect(i, j) ==
    /\ CanvasReachable
    /\ i # j
    /\ nodes[i].id # nodes[j].id
    /\ nodes[j].type # "textInput"
    /\ ~\E k \in DOMAIN edges :
          edges[k].source = nodes[i].id /\ edges[k].target = nodes[j].id
    /\ LET newEdge == Edge(<<"reactflow__edge", nodes[i].id, nodes[j].id>>,
                           nodes[i].id, nodes[j].id)
       IN  Install(GraphCommit([Component EXCEPT !.edges = Append(edges, newEdge)]))
    /\ FreshArrays(FALSE, TRUE)
    /\ EditStep("connect", AfterMutation)
    /\ KeepHost
    /\ UNCHANGED execVars

\* applyNodeChanges of one change: every node whose id is the change's id is
\* replaced by its updated copy, the others are kept.
ApplyNodeChange(id, updated) ==
    [k \in DOMAIN nodes |-> IF nodes[k].id = id THEN updated[k] ELSE nodes[k]]

\* onNodesChange (line 468) with a select change for node i.
SelectNode(i) ==
    /\ CanvasReachable
    /\ LET updated == [k \in DOMAIN nodes |-> [nodes[k] EXCEPT !.selected = ~nodes[i].selected]]
       IN  Install(GraphCommit([Component EXCEPT
                                   !.nodes = ApplyNodeChange(nodes[i].id, updated)]))
    /\ FreshArrays(TRUE, FALSE)
    /\ EditStep("selectNode", "other")
    /\ KeepHost
    /\ UNCHANGED execVars

\* onEdgesChange (line 469) with a select change for edge k.
SelectEdge(k) ==
    /\ CanvasReachable
    /\ Install(GraphCommit([Component EXCEPT !.edges[k].selected = ~@]))
    /\ FreshArrays(FALSE, TRUE)
    /\ EditStep("selectEdge", "other")
    /\ KeepHost
    /\ UNCHANGED execVars

\* onNodesChange (line 468) with a position change while node i is dragged.
DragMove(i, position) ==
    /\ CanvasReachable
    /\ nodes[i].position # position
    /\ \A k \in DOMAIN nodes : nodes[k].dragging => nodes[k].id = nodes[i].id
    /\ LET updated == [k \in DOMAIN nodes |-> [nodes[k] EXCEPT !.position = position, !.dragging = TRUE]]
       IN  Install(GraphCommit([Component EXCEPT
                                   !.nodes = ApplyNodeChange(nodes[i].id, updated)]))
    /\ FreshArrays(TRUE, FALSE)
    /\ EditStep("dragMove", "other")
    /\ KeepHost
    /\ UNCHANGED execVars

\* onNodesChange (line 468) with the position change that ends the drag.
DragStop(i) ==
    /\ CanvasReachable
    /\ nodes[i].dragging
    /\ LET updated == [k \in DOMAIN nodes |-> [nodes[k] EXCEPT !.dragging = FALSE]]
       IN  Install(GraphCommit([Component EXCEPT
                                   !.nodes = ApplyNodeChange(nodes[i].id, updated)]))
    /\ FreshArrays(TRUE, FALSE)
    /\ EditStep("dragStop", AfterMutation)
    /\ KeepHost
    /\ UNCHANGED execVars

\* handleKeyDown line 212: the nodes filter.
KeepNode(n, nodeIdsToRemove) == n.id \notin nodeIdsToRemove

EdgeIncidentSourceOnly(e, nodeIdsToRemove) == e.source \in nodeIdsToRemove

\* handleKeyDown lines 215-216: the edge has an endpoint among the removed.
EdgeIncident(e, nodeIdsToRemove) ==
    e.source \in nodeIdsToRemove \/ e.target \in nodeIdsToRemove

KeepEdgeIgnoringSelection(e, nodeIdsToRemove, selectedEdgeIds) ==
    ~EdgeIncident(e, nodeIdsToRemove)

\* handleKeyDown lines 213-217: the edges filter.
KeepEdge(e, nodeIdsToRemove, selectedEdgeIds) ==
    /\ e.id \notin selectedEdgeIds
    /\ ~EdgeIncident(e, nodeIdsToRemove)

\* handleKeyDown, lines 201-232, on Shift+Delete or Shift+Backspace: with a
\* selection the filtered arrays are installed and reported; without one
\* nothing is done.
DeleteGesture ==
    /\ appError = "none"
    /\ LET selectedNodes == {i \in DOMAIN nodes : nodes[i].selected}
           selectedEdges == {k \in DOMAIN edges : edges[k].selected}
           nodeIdsToRemove == {nodes[i].id : i \in selectedNodes}
           selectedEdgeIds == {edges[k].id : k \in selectedEdges}
           NodeStays(n) == KeepNode(n, nodeIdsToRemove)
           EdgeStays(e) == KeepEdge(e, nodeIdsToRemove, selectedEdgeIds)
           newNodes == SelectSeq(nodes, NodeStays)
           newEdges == SelectSeq(edges, EdgeStays)
           c0 == [Component EXCEPT !.nodes = newNodes, !.edges = newEdges]
           c1 == IF workflowData.id # NoId
                 THEN OnWorkflowChange(c0, [nodes |-> newNodes, edges |-> newEdges])
                 ELSE c0
       IN  IF selectedNodes # {} \/ selectedEdges # {}
           THEN /\ Install(GraphCommit(c1))
                /\ FreshArrays(TRUE, TRUE)
                /\ EditStep("delete", AfterMutation)
           ELSE /\ KeepComponent
                /\ EditStep("deleteNone", "other")
    /\ KeepHost
    /\ UNCHANGED execVars

\* TextInputNode.handleTextChange (part_001 lines 8-14) on a node that still
\* carries data.onTextChange, then handleTextInputChange, lines 289-297.
TextChange(i, text) ==
    /\ appError = "none"
    /\ nodes[i].type = "textInput"
    /\ nodes[i].handlers
    /\ LET updated == [k \in DOMAIN nodes |-> [nodes[k] EXCEPT !.text = text]]
       IN  Install(GraphCommit([Component EXCEPT
                                   !.nodes = ApplyNodeChange(nodes[i].id, updated)]))
    /\ FreshArrays(TRUE, FALSE)
    /\ EditStep("textChange", AfterMutation)
    /\ KeepHost
    /\ UNCHANGED execVars

UndoFlagBeforeGuard ==
    /\ CanvasReachable
    /\ IF historyIndex > 0
       THEN LET prevState == history[historyIndex]
                c0 == [Component EXCEPT !.isUndoRedoRef = TRUE,
                                        !.nodes = prevState.nodes,
                                        !.edges = prevState.edges,
                                        !.historyIndex = historyIndex - 1]
                c1 == IF workflowData.id # NoId
                      THEN OnWorkflowChange(c0, prevState) ELSE c0
            IN  /\ Install(GraphCommit(c1))
                /\ liveArrays' = [nodes |-> historyIndex, edges |-> historyIndex]
       ELSE /\ isUndoRedoRef' = TRUE
            /\ UNCHANGED <<nodes, edges, history, historyIndex, workflowData,
                           isDirty, currentGraphState, appError, liveArrays>>
    /\ EditStep("undo", IF phase = "mutated" THEN "undone" ELSE "other")
    /\ KeepHost
    /\ UNCHANGED execVars

\* handleUndo, lines 238-254.  history[historyIndex - 1] of the code is
\* history[historyIndex] here (sequences start at 1); the arrays installed
\* are the snapshot's own.
Undo ==
    /\ CanvasReachable
    /\ IF historyIndex > 0
       THEN LET prevState == history[historyIndex]
                c0 == [Component EXCEPT !.isUndoRedoRef = TRUE,
                                        !.nodes = prevState.nodes,
                                        !.edges = prevState.edges,
                                        !.historyIndex = historyIndex - 1]
                c1 == IF workflowData.id # NoId
                      THEN OnWorkflowChange(c0, prevState) ELSE c0
            IN  /\ Install(GraphCommit(c1))
                /\ liveArrays' = [nodes |-> historyIndex, edges |-> historyIndex]
       ELSE KeepComponent
    /\ EditStep("undo", IF phase = "mutated" THEN "undone" ELSE "other")
    /\ KeepHost
    /\ UNCHANGED execVars

\* handleRedo, lines 256-272.
Redo ==
    /\ CanvasReachable
    /\ IF historyIndex < Len(history) - 1
       THEN LET nextState == history[historyIndex + 2]
                c0 == [Component EXCEPT !.isUndoRedoRef = TRUE,
                                        !.nodes = nextState.nodes,
                                        !.edges = nextState.edges,
                                        !.historyIndex = historyIndex + 1]
                c1 == IF workflowData.id # NoId
                      THEN OnWorkflowChange(c0, nextState) ELSE c0
            IN  /\ Install(GraphCommit(c1))
                /\ liveArrays' = [nodes |-> historyIndex + 2, edges |-> historyIndex + 2]
       ELSE KeepComponent
    /\ EditStep("redo", IF phase = "undone" THEN "redone" ELSE "other")
    /\ KeepHost
    /\ UNCHANGED execVars

\* App and AgentGraph as mounted: part_003 lines 59-66, part_000 lines 61-65.
InitEdit ==
    /\ workflowData = NoWorkflow
    /\ selectedWorkflowId = NoId
    /\ isDirty = FALSE
    /\ currentGraphState = EmptyGraph
    /\ showUnsavedModal = FALSE
    /\ pendingWorkflowId = NoId
    /\ logs = <<>>
    /\ appError = "none"
    /\ EditLoaded(NoWorkflow)
    /\ ExecIdle
    /\ lastOp = "init"

NextEdit ==
    \/ \E id \in WorkflowIds : SelectWorkflow(id)
    \/ \E action \in {"save", "discard", "cancel"} : ModalAction(action)
    \/ SaveWorkflow
    \/ \E i \in DOMAIN saves : SaveResponseOk(i)
    \/ \E i \in DOMAIN saves : SaveResponseFail(i)
    \/ \E i \in DOMAIN loads : LoadResponseOk(i)
    \/ \E i \in DOMAIN loads : LoadResponseFail(i)
    \/ \E tick \in 0 .. 1 : AddNode(tick)
    \/ \E t \in PaletteTypes, p \in DropPositions, tick \in 0 .. 1 : OnDrop(t, p, tick)
    \/ \E i, j \in DOMAIN nodes : OnConnect(i, j)
    \/ \E i \in DOMAIN nodes : SelectNode(i)
    \/ \E k \in DOMAIN edges : SelectEdge(k)
    \/ \E i \in DOMAIN nodes, p \in DragPositions : DragMove(i, p)
    \/ \E i \in DOMAIN nodes : DragStop(i)
    \/ DeleteGesture
    \/ \E i \in DOMAIN nodes, text \in Texts : TextChange(i, text)
    \/ Undo
    \/ Redo

SpecEdit == InitEdit /\ [][NextEdit]_vars

\* The cursor is on a snapshot whenever there is one.
HistoryIndexInRange ==
    /\ historyIndex >= -1
    /\ historyIndex <= Len(history) - 1
    /\ (Len(history) > 0) => historyIndex >= 0

----------------------------------------------------------------------------
(* C1 - C3: the history *)

MutationOps == {"addNode", "drop", "connect", "delete", "dragStop", "textChange"}

\* The data of a graph: everything but the function-valued fields.
GraphData(g) == Snapshot(g.nodes, g.edges)

EdgeTriples(es) == {<<es[k].id, es[k].source, es[k].target>> : k \in DOMAIN es}

\* C1: after a definition load followed by N >= 1 consecutive recorded
\* mutations, undo makes the live nodes and edges equal to the graph as it
\* was after mutation N-1 (the loaded graph when N = 1), and an immediately
\* following redo makes them equal to the graph as it was just before the
\* undo.
C1_UndoRedoRestores ==
    [][/\ (phase = "mutated" /\ lastOp' = "undo") =>
              GraphData(LiveGraph') = GraphData(before)
       /\ (phase = "undone" /\ lastOp' = "redo") =>
              GraphData(LiveGraph') = GraphData(before)]_vars

\* C2: in definition mode each recorded mutation replaces the history with
\* the snapshots up to and including the cursor followed by exactly one new
\* snapshot equal to the post-mutation graph, and advances the cursor by
\* exactly one, so that the cursor is on the last snapshot.
C2_OneSnapshotPerMutation ==
    [][(lastOp' \in MutationOps /\ workflowData.id # NoId) =>
          /\ history' = Slice(history, historyIndex + 1)
                            \o <<Snapshot(nodes', edges')>>
          /\ historyIndex' = historyIndex + 1
          /\ historyIndex' = Len(history') - 1]_vars

\* C3: a deletion gesture appends exactly one history snapshot, and a single
\* undo immediately afterwards brings back every node and edge the gesture
\* removed, for every selection, one that removes all nodes included.
C3_DeleteIsOneUndoStep ==
    [][/\ (lastOp' = "delete" /\ workflowData.id # NoId) =>
              Len(history') = Len(Slice(history, historyIndex + 1)) + 1
       /\ (lastOp = "delete" /\ lastOp' = "undo" /\ workflowData.id # NoId) =>
              /\ NodeIdsOf(before.nodes) \subseteq NodeIdsOf(nodes')
              /\ EdgeTriples(before.edges) \subseteq EdgeTriples(edges')]_vars

----------------------------------------------------------------------------
(* C11 - C12: the dirty flag and the switch of workflows *)

\* A graph without its presentational fields (selection, dragging, measured
\* size) and without the function-valued fields.
Plain(g) ==
    [nodes |-> [i \in DOMAIN g.nodes |->
                   [g.nodes[i] EXCEPT !.selected = FALSE, !.dragging = FALSE,
                                      !.measured = FALSE, !.handlers = FALSE,
                                      !.onTrigger = "none"]],
     edges |-> [k \in DOMAIN g.edges |-> [g.edges[k] EXCEPT !.selected = FALSE]]]

\* The live graph is the graph of the definition as loaded or as saved.
Unedited ==
    /\ workflowData.id # NoId
    /\ Plain(LiveGraph) = Plain([nodes |-> IngestNodes(workflowData),
                                 edges |-> IngestEdges(workflowData)])

\* The step moved node i so that a rounded coordinate changed.
MovedRounded ==
    \E i \in DOMAIN nodes :
        /\ i \in DOMAIN nodes'
        /\ \E d \in 1 .. 2 :
              MathRound(nodes'[i].position[d]) # MathRound(nodes[i].position[d])

LoadCompleted == lastOp' = "load" /\ appError' = "none"

SaveCompleted == lastOp' = "saveOk" /\ appError' = "none"

SingleEdit ==
    \/ lastOp' \in {"addNode", "drop", "connect", "delete"}
    \/ lastOp' = "dragMove" /\ MovedRounded

\* C11: the dirty flag is false once a definition load has completed and
\* once a successful save has completed, and it is true after any single
\* addition or removal of a node or an edge, or move of a node that changes
\* a rounded coordinate, applied to the just-loaded or just-saved graph.
C11_DirtyFollowsEdits ==
    [][/\ LoadCompleted => ~isDirty'
       /\ SaveCompleted => ~isDirty'
       /\ (Unedited /\ SingleEdit) => isDirty']_vars

\* The step is the arrival of a definition whose load was sent by one of
\* the given decisions.
LoadArrived(decisions) ==
    /\ lastOp' = "load"
    /\ \E i \in DOMAIN loads :
          loads' = RemoveAt(loads, i) /\ loads[i].via \in decisions

\* C12: a live graph with unsaved changes is replaced by another workflow's
\* graph only by a load that the user's discard, or the user's save once it
\* succeeded, sent for that switch; cancel, and a save that fails, leave the
\* current definition, its live graph and its dirty flag unchanged.
C12_SwitchIsGated ==
    [][/\ (isDirty /\ lastOp' = "load" /\ workflowData'.id # workflowData.id) =>
              LoadArrived({"discard", "save"})
       /\ (lastOp' \in {"cancel", "saveFail"}) =>
              UNCHANGED <<workflowData, nodes, edges, isDirty>>]_vars

----------------------------------------------------------------------------
(* C13 - C14: the deletion gesture and dangling edges *)

\* The ids of the selected nodes (S) and of the selected edges (T).
SelectedNodeIds(ns) == {ns[i].id : i \in {j \in DOMAIN ns : ns[j].selected}}

SelectedEdgeIds(es) == {es[k].id : k \in {j \in DOMAIN es : es[j].selected}}

C14_NoDanglingEdges ==
    /\ NoDangling(LiveGraph)
    /\ \A h \in DOMAIN history : NoDangling(history[h])

\* A deletion of a node has taken the last edges with it, other nodes stay,
\* and the history holds a snapshot with edges.
C14_Witness ==
    /\ lastOp = "delete"
    /\ before.edges # <<>>
    /\ \A k \in DOMAIN before.edges : ~before.edges[k].selected
    /\ edges = <<>>
    /\ nodes # <<>>
    /\ \E h \in DOMAIN history : history[h].edges # <<>>

----------------------------------------------------------------------------
(* Specification SpecTrace: the graph component mounted with an execution
   trace and no definition; the ingestion effect derives the graph
   (part_000 lines 117-181). *)

MaxTrace == 3           \* steps of a trace, and step ids to choose from

StepIds == {<<"s", k>> : k \in 1 .. MaxTrace}

\* parent_id absent, null or empty.
NoParent == <<"none", 0>>

\* A parent_id that is the step_id of no step.
UnknownStepId == <<"s", 0>>

Step(step_id, parent_id) ==
    [step_id |-> step_id, parent_id |-> parent_id, node_name |-> "step"]

TraceSteps ==
    {Step(s, p) : s \in StepIds, p \in StepIds \cup {NoParent, UnknownStepId}}

Traces == UNION {[1 .. n -> TraceSteps] : n \in 0 .. MaxTrace}

\* getLayoutedElements, lines 26-58, direction LR with dagre's default
\* separation of 50 px between ranks: the top-left corner dagre gives the
\* index-th node of a chain, in half-pixels.  The layout of other shapes is
\* the library's; nothing here depends on it beyond being a function of the
\* index.
Layouted(index) == <<2 * (250 + 50) * (index - 1), 0>>

\* Lines 124-143: the node of the index-th step.
TraceNode(stepList, index) ==
    [Node(stepList[index].step_id, Layouted(index), stepList[index].node_name)
        EXCEPT !.type = "undefined"]

TraceNodes(stepList) == [index \in DOMAIN stepList |-> TraceNode(stepList, index)]

\* Lines 147-170 for the index-th step (index 1 is the code's index 0):
\* nodeMap holds the step_id of every step of the trace.
TraceStepEdgesFromFirst(stepList, index) ==
    LET step == stepList[index]
        nodeMap == {stepList[j].step_id : j \in DOMAIN stepList}
    IN  IF step.parent_id # NoParent /\ step.parent_id \in nodeMap
        THEN <<Edge(<<"e", step.parent_id, step.step_id>>,
                    step.parent_id, step.step_id)>>
        ELSE IF index > 1 /\ step.parent_id = NoParent
        THEN <<Edge(<<"e", stepList[1].step_id, step.step_id>>,
                    stepList[1].step_id, step.step_id)>>
        ELSE <<>>

TraceStepEdges(stepList, index) ==
    LET step == stepList[index]
        nodeMap == {stepList[j].step_id : j \in DOMAIN stepList}
        prev == stepList[index - 1].step_id
    IN  IF step.parent_id # NoParent /\ step.parent_id \in nodeMap
        THEN <<Edge(<<"e", step.parent_id, step.step_id>>,
                    step.parent_id, step.step_id)>>
        ELSE IF index > 1 /\ step.parent_id = NoParent
        THEN <<Edge(<<"e", prev, step.step_id>>, prev, step.step_id)>>
        ELSE <<>>

RECURSIVE TraceEdgesUpTo(_, _)
\* Lines 146-171: the edges of the first n steps, in the order pushed.
TraceEdgesUpTo(stepList, n) ==
    IF n = 0 THEN <<>>
    ELSE TraceEdgesUpTo(stepList, n - 1) \o TraceStepEdges(stepList, n)

TraceEdges(stepList) == TraceEdgesUpTo(stepList, Len(stepList))

\* The ingestion effect in trace mode, lines 76-78 and 117-180, and the
\* effects of the commit that renders the derived graph.
TraceIngestion ==
    /\ appError = "none"
    /\ workflowData.id = NoId
    /\ traceData.present
    /\ lastOp = "init"
    /\ Install(GraphCommit([Component EXCEPT
                               !.nodes = TraceNodes(traceData.steps),
                               !.edges = TraceEdges(traceData.steps)]))
    /\ FreshArrays(TRUE, TRUE)
    /\ EditStep("traceIngestion", "other")
    /\ KeepHost
    /\ UNCHANGED execVars

InitTrace ==
    /\ workflowData = NoWorkflow
    /\ selectedWorkflowId = NoId
    /\ isDirty = FALSE
    /\ currentGraphState = EmptyGraph
    /\ showUnsavedModal = FALSE
    /\ pendingWorkflowId = NoId
    /\ logs = <<>>
    /\ appError = "none"
    /\ \E t \in Traces : Mounted(NoWorkflow, [steps |-> t, present |-> TRUE])
    /\ ExecIdle
    /\ lastOp = "init"

NextTrace == TraceIngestion

SpecTrace == InitTrace /\ [][NextTrace]_vars

----------------------------------------------------------------------------
(* C15 - C16: the edges derived from a trace *)

\* The index-th step has a parent_id.
HasParent(stepList, index) == stepList[index].parent_id # NoParent

\* The parent_id of the index-th step is the step_id of an earlier step.
ParentIsEarlier(stepList, index) ==
    \E j \in 1 .. index - 1 : stepList[j].step_id = stepList[index].parent_id

\* Every present parent_id names a step earlier in array order.
WellFormedTrace(stepList) ==
    \A index \in DOMAIN stepList :
        HasParent(stepList, index) => ParentIsEarlier(stepList, index)

EdgePairs(es) == {<<es[k].source, es[k].target>> : k \in DOMAIN es}

Ingested == lastOp = "traceIngestion"

\* C15: for every trace in which each present parent_id names an earlier
\* step, ingestion gives exactly one node per step, in step order, and the
\* edges are the pairs parent_id -> step_id of the steps with a parent_id
\* together with the pairs steps[i-1] -> steps[i] of the non-first steps
\* without one, and no other edge; the first step gets no fallback edge.
C15_TraceEdges ==
    (Ingested /\ WellFormedTrace(traceData.steps)) =>
        LET stepList == traceData.steps
        IN  /\ Len(nodes) = Len(stepList)
            /\ \A i \in DOMAIN stepList : nodes[i].id = stepList[i].step_id
            /\ EdgePairs(edges) =
                  {<<stepList[i].parent_id, stepList[i].step_id>> :
                       i \in {j \in DOMAIN stepList : HasParent(stepList, j)}}
                  \cup
                  {<<stepList[i - 1].step_id, stepList[i].step_id>> :
                       i \in {j \in DOMAIN stepList : j > 1 /\ ~HasParent(stepList, j)}}
            /\ Len(edges) = Len(stepList)
                              - (IF Len(stepList) > 0 /\ ~HasParent(stepList, 1)
                                 THEN 1 ELSE 0)
            /\ (\A i \in DOMAIN stepList : ~HasParent(stepList, i)) =>
                   \A k \in DOMAIN edges :
                       /\ edges[k].source = stepList[k].step_id
                       /\ edges[k].target = stepList[k + 1].step_id

\* A well-formed trace of three steps has been ingested, with a parent edge
\* that skips a step and a fallback edge.
C15_Witness ==
    /\ Ingested
    /\ WellFormedTrace(traceData.steps)
    /\ Len(traceData.steps) = 3
    /\ traceData.steps[3].parent_id = traceData.steps[1].step_id
    /\ traceData.steps[3].parent_id # traceData.steps[2].step_id
    /\ ~HasParent(traceData.steps, 2)
    /\ Len(edges) = 2

\* C16: ingestion adds a parent edge parent_id -> step_id only when
\* parent_id is the step_id of an earlier step; a parent_id that names a
\* later step, or the step itself, gives no parent edge (stated for traces
\* whose step ids are distinct, where an edge into a step comes from that
\* step alone).
C16_ParentMustBeEarlier ==
    (Ingested /\ DistinctIds(nodes)) =>
        \A i \in DOMAIN traceData.steps :
            (HasParent(traceData.steps, i) /\ ~ParentIsEarlier(traceData.steps, i)) =>
                <<traceData.steps[i].parent_id, traceData.steps[i].step_id>>
                    \notin EdgePairs(edges)

----------------------------------------------------------------------------
(* C17: node ids *)

\* C17: the node ids of the live graph stay pairwise distinct after any
\* sequence of drag-create and manual-add operations on a graph whose ids
\* were distinct, also when two nodes are created at the same clock reading.
C17_NodeIdsDistinct ==
    [][(lastOp' \in {"addNode", "drop"} /\ DistinctIds(nodes)) =>
          DistinctIds(nodes')]_vars

----------------------------------------------------------------------------
(* C18 - C20: the history and the live graph *)

\* The snapshot at the cursor has the nodes and edges of the live graph.
CursorOnLiveGraph ==
    /\ history # <<>>
    /\ historyIndex + 1 \in DOMAIN history
    /\ Plain(history[historyIndex + 1]) = Plain(LiveGraph)

\* C18: in definition mode, after every completed load, mutation, undo or
\* redo the history is non-empty and the snapshot at the cursor has the same
\* nodes and edges as the live graph, the empty graph included.
C18_CursorIsLiveGraph ==
    [][(/\ workflowData'.id # NoId
        /\ appError' = "none"
        /\ lastOp' \in MutationOps \cup {"load", "undo", "redo"}) =>
          CursorOnLiveGraph']_vars

\* C19: at every point no stored snapshot shares a node or edge object with
\* the live graph, also right after undo or redo has installed a snapshot:
\* the live arrays are the arrays of no snapshot.
C19_NoSharedObjects ==
    /\ liveArrays.nodes \notin DOMAIN history
    /\ liveArrays.edges \notin DOMAIN history

\* C20: undo with the cursor at index 0 or with an empty history, and redo
\* with the cursor on the last snapshot, change nothing: live nodes, live
\* edges, the snapshots, the cursor, the from-history flag and the dirty flag
\* stay as they are.
C20_UndoRedoAtEndsAreNoOps ==
    [][(\/ lastOp' = "undo" /\ historyIndex <= 0
        \/ lastOp' = "redo" /\ historyIndex >= Len(history) - 1) =>
          UNCHANGED <<nodes, edges, history, historyIndex, isUndoRedoRef,
                      isDirty>>]_vars

\* Undo was invoked with the cursor on the first of several snapshots, after
\* an undo that had moved it there.
C20_Witness ==
    /\ lastOp = "undo"
    /\ before.historyIndex = 0
    /\ historyIndex = 0
    /\ Len(history) > 1
    /\ nodes # <<>>

----------------------------------------------------------------------------
(* Specification SpecView: the editor of SpecEdit whose host can also hand
   the graph component an execution trace in place of the definition. *)

\* The traces the host can select.
ViewTraces ==
    {<<Step(<<"s", 1>>, NoParent), Step(<<"s", 2>>, NoParent)>>,
     <<Step(<<"s", 1>>, NoParent)>>}

\* A trace is being viewed: no definition, and a trace to display.
ViewingTrace == workflowData.id = NoId /\ traceData.present

\* The graph derived from the trace on display.
TraceGraph == [nodes |-> TraceNodes(traceData.steps),
               edges |-> TraceEdges(traceData.steps)]

\* The host selects a trace: the component gets workflowData = null and
\* traceData = the trace, and its ingestion effect (part_000 lines 76-78 and
\* 117-181, dependencies [traceData, workflowData]) derives the graph.
ShowTrace(t) ==
    /\ appError = "none"
    /\ traceData.steps # t
    /\ Install(GraphCommit([Component EXCEPT !.workflowData = NoWorkflow,
                                             !.nodes = TraceNodes(t),
                                             !.edges = TraceEdges(t)]))
    /\ FreshArrays(TRUE, TRUE)
    /\ EditStepTrace("showTrace", "other", [steps |-> t, present |-> TRUE])
    /\ KeepHost
    /\ UNCHANGED execVars

NextView ==
    \/ NextEdit
    \/ \E t \in ViewTraces : ShowTrace(t)

SpecView == InitEdit /\ [][NextView]_vars

----------------------------------------------------------------------------
(* C21 - C22: a trace on display *)

\* C21: while a trace is being viewed no history snapshot is appended, and
\* undo and redo do not change the displayed graph, whatever was recorded
\* earlier in the session.
C21_HistoryInactiveInTraceMode ==
    [][(ViewingTrace /\ ViewingTrace' /\ traceData' = traceData) =>
          /\ history' = history
          /\ (lastOp' \in {"undo", "redo"}) => (nodes' = nodes /\ edges' = edges)]_vars

\* C22: while a trace graph is displayed no authoring operation (manual add,
\* drag-create, connect, deletion gesture) changes its nodes or edges: the
\* displayed graph stays the graph derived from the trace.
C22_TraceGraphReadOnly ==
    [][(/\ ViewingTrace /\ ViewingTrace' /\ traceData' = traceData
        /\ Plain(LiveGraph) = Plain(TraceGraph)
        /\ lastOp' \in {"addNode", "drop", "connect", "delete"}) =>
          Plain(LiveGraph') = Plain(TraceGraph)]_vars

----------------------------------------------------------------------------
(* Specification SpecFail: run actions with and without a definition, whose
   execute requests succeed or fail, beside one poll period of an execution
   that was started. *)

FailLimits == [executions |-> 2, inflight |-> 1,
               horizon |-> PollIntervalMs, startBy |-> PollIntervalMs]

NextFail ==
    \/ TriggerNoWorkflow
    \/ TriggerWorkflow(FailLimits)
    \/ ExecuteResponseOk
    \/ ExecuteResponseFail
    \/ \E e \in ExecIds : PollTick(e, FailLimits)
    \/ \E i \in DOMAIN inflight, st \in PollStates, k \in 0 .. MaxLogs :
          PollResponseOk(i, st, k)
    \/ \E i \in DOMAIN inflight : PollResponseFail(i)
    \/ AdvanceTime(FailLimits)

SpecFail == InitExec /\ [][NextFail]_vars

----------------------------------------------------------------------------
(* C23: a run that does not start *)

\* C23: when the execute request fails, or the run action is taken with no
\* workflow loaded, no poll timer is started and the live graph, the
\* history, the dirty flag and the published logs are unchanged.
C23_FailedRunChangesNothing ==
    [][(lastOp' \in {"executeFail", "triggerNoWorkflow"}) =>
          /\ executions' = executions
          /\ (lastOp' = "triggerNoWorkflow") => submitting' = submitting
          /\ UNCHANGED <<nodes, edges, history, historyIndex, isDirty, logs>>]_vars

\* An execute request has failed while an earlier execution is being polled
\* and has published logs.
C23_Witness ==
    /\ lastOp = "executeFail"
    /\ Len(executions) = 1
    /\ executions[1].timer
    /\ logs # <<>>

----------------------------------------------------------------------------
(* Specification SpecRun: the editor of SpecEdit with the Run button of the
   text-input nodes. *)

\* The workflowData that the handleTriggerWorkflow held by node n closes
\* over: the ingestion effect runs in the render that received the current
\* definition; onDrop keeps the function of the render that created it
\* (dependencies [reactFlowInstance, setNodes], line 452), when no definition
\* was loaded.
TriggerClosure(n) == IF n.onTrigger = "ingestion" THEN workflowData ELSE NoWorkflow

\* TextInputNode.handleTrigger (part_001 lines 16-20) on node i, whose button
\* is enabled by its text, and handleTriggerWorkflow up to the fetch
\* (part_000 lines 299-334).
Run(i) ==
    /\ CanvasReachable
    /\ nodes[i].type = "textInput"
    /\ nodes[i].text # ""
    /\ nodes[i].onTrigger # "none"
    /\ IF TriggerClosure(nodes[i]).id = NoId
       THEN /\ EditStep("runNoWorkflow", phase)
            /\ UNCHANGED <<submitting, payload>>
       ELSE /\ EditStep("run", phase)
            /\ submitting' = submitting + 1
            /\ payload' = ExecutionPayload(TriggerClosure(nodes[i]), nodes, edges)
    /\ KeepComponent
    /\ KeepHost
    /\ UNCHANGED <<now, executions, inflight>>

NextRun ==
    \/ NextEdit
    \/ \E i \in DOMAIN nodes : Run(i)

SpecRun == InitEdit /\ [][NextRun]_vars

----------------------------------------------------------------------------
(* C24: the execution payload *)

\* The declared kind of node n when it has one, else its rendering type.
DeclaredKind(n) == IF n.dtype # "undefined" THEN n.dtype ELSE n.type

\* C24: the submitted payload has one entry per node of the live graph at
\* the moment of the run action, in order, each with exactly the fields id,
\* type, position and data, the type being the declared kind whenever there
\* is one, and one entry per live edge with exactly the fields id, source
\* and target.
C24_PayloadIsLiveGraph ==
    [][(lastOp' = "run") =>
          /\ DOMAIN payload'.nodes = DOMAIN nodes
          /\ \A i \in DOMAIN nodes :
                /\ DOMAIN payload'.nodes[i] = {"id", "type", "position", "data"}
                /\ payload'.nodes[i].id = nodes[i].id
                /\ payload'.nodes[i].type = DeclaredKind(nodes[i])
                /\ payload'.nodes[i].position = nodes[i].position
                /\ payload'.nodes[i].data.label = nodes[i].label
                /\ payload'.nodes[i].data.text = nodes[i].text
          /\ DOMAIN payload'.edges = DOMAIN edges
          /\ \A k \in DOMAIN edges :
                payload'.edges[k] = [id |-> edges[k].id,
                                     source |-> edges[k].source,
                                     target |-> edges[k].target]]_vars

----------------------------------------------------------------------------
(* Specification SpecLeave: one execution is started and polled while the
   user selects and loads workflows. *)

LeaveLimits == [executions |-> 1, inflight |-> 1,
                horizon |-> MaxTicks * PollIntervalMs, startBy |-> 0]

NextLeave ==
    \/ \E id \in WorkflowIds : SelectWorkflow(id)
    \/ \E i \in DOMAIN loads : LoadResponseOk(i)
    \/ \E i \in DOMAIN loads : LoadResponseFail(i)
    \/ TriggerWorkflow(LeaveLimits)
    \/ ExecuteResponseOk
    \/ ExecuteResponseFail
    \/ \E e \in ExecIds : PollTick(e, LeaveLimits)
    \/ \E i \in DOMAIN inflight, st \in PollStates, k \in 0 .. MaxLogs :
          PollResponseOk(i, st, k)
    \/ \E i \in DOMAIN inflight : PollResponseFail(i)
    \/ AdvanceTime(LeaveLimits)

SpecLeave == InitEdit /\ [][NextLeave]_vars

----------------------------------------------------------------------------
(* C25: leaving the workflow of a polled execution *)

\* The loaded workflow is no longer the one whose execution was submitted.
LeftExecution == payload.sent /\ workflowData.id # payload.id

\* C25: once the user has left the workflow whose execution is polled (a
\* different workflow is loaded), no poll response of the old execution is
\* published: the logs cleared by the load stay empty of its entries.
C25_LogsStayClearAfterLeaving == LeftExecution => logs = <<>>

----------------------------------------------------------------------------
(* Specification SpecKeys: the editor of SpecEdit with the bare Delete and
   Backspace keys. *)

BareKeys == {"Delete", "Backspace"}

\* The key the canvas deletes on.  <ReactFlow> is rendered without a
\* deleteKeyCode prop (part_000 lines 464-478), so the default of the
\* reactflow package imported in line 11 applies: 'Backspace'.
DeleteKeyCode == "Backspace"

\* A key press without Shift while the canvas has the focus.  handleKeyDown
\* (lines 202-203) does nothing without event.shiftKey.  On its delete key
\* the canvas sends remove changes for the selected nodes, the edges at them
\* and the selected edges to onNodesChange / onEdgesChange (lines 468-469),
\* the appliers of useNodesState / useEdgesState; the history effect and the
\* onWorkflowChange effect follow the new arrays.
BareKey(key) ==
    /\ CanvasReachable
    /\ LET selectedNodes == {i \in DOMAIN nodes : nodes[i].selected}
           selectedEdges == {k \in DOMAIN edges : edges[k].selected}
           nodeIdsToRemove == {nodes[i].id : i \in selectedNodes}
           selectedEdgeIds == {edges[k].id : k \in selectedEdges}
           NodeStays(n) == KeepNode(n, nodeIdsToRemove)
           EdgeStays(e) == KeepEdge(e, nodeIdsToRemove, selectedEdgeIds)
           newNodes == SelectSeq(nodes, NodeStays)
           newEdges == SelectSeq(edges, EdgeStays)
       IN  IF key = DeleteKeyCode /\ (selectedNodes # {} \/ selectedEdges # {})
           THEN /\ Install(GraphCommit([Component EXCEPT !.nodes = newNodes,
                                                         !.edges = newEdges]))
                /\ FreshArrays(selectedNodes # {}, Len(newEdges) # Len(edges))
                /\ EditStep("bareKey", AfterMutation)
           ELSE /\ KeepComponent
                /\ EditStep("bareKeyNone", "other")
    /\ KeepHost
    /\ UNCHANGED execVars

NextKeys ==
    \/ NextEdit
    \/ \E key \in BareKeys : BareKey(key)

SpecKeys == InitEdit /\ [][NextKeys]_vars

----------------------------------------------------------------------------
(* C26: bare delete keys *)

\* C26: a Delete or Backspace key press without Shift never removes a node
\* or an edge from the graph.
C26_BareKeyRemovesNothing ==
    [][(lastOp' \in {"bareKey", "bareKeyNone"}) =>
          (nodes' = nodes /\ edges' = edges)]_vars

----------------------------------------------------------------------------
(* Specification SpecIngest: the ingestion effect (part_000 lines 76-182) is
   run on a definition or on a trace handed to the component, and run again
   on the same input. *)

MaxDefinitionNodes == 2     \* nodes of an ingested definition
MaxIngestions == 2          \* runs of the ingestion effect on one input

DefinitionIds == {<<"n", k>> : k \in 1 .. MaxDefinitionNodes}

\* Stored positions in half-pixels; NoPosition: the node has none.
DefinitionPositions == {NoPosition, <<0, 0>>, <<400, 200>>}

DefinitionNodes ==
    {ns \in UNION {[1 .. n -> {Node(id, pos, "A") : id \in DefinitionIds,
                                                  pos \in DefinitionPositions}] :
                      n \in 0 .. MaxDefinitionNodes} : DistinctIds(ns)}

\* No edge, or one from the first node to the second.
DefinitionEdges(ns) ==
    IF Len(ns) >= 2 THEN {<<>>, <<Edge(<<"e", 1>>, ns[1].id, ns[2].id)>>} ELSE {<<>>}

IngestDefinitions ==
    UNION {{[id |-> <<"wf", 1>>, nodes |-> ns, edges |-> es] : es \in DefinitionEdges(ns)} :
              ns \in DefinitionNodes}

IngestTraces == {t \in Traces : Len(t) <= 2}

\* The effect given a definition that was mutated while its nodes were
\* placed: the defaulted positions are written into the source.
IngestionResultWritesSource(wf, trace) ==
    IF wf.id # NoId
    THEN [nodes |-> IngestNodes(wf), edges |-> IngestEdges(wf),
          workflowData |-> [wf EXCEPT !.nodes = [i \in DOMAIN wf.nodes |->
                               [wf.nodes[i] EXCEPT !.position = IngestNode(wf.nodes[i]).position]]],
          traceData |-> trace]
    ELSE [nodes |-> TraceNodes(trace.steps), edges |-> TraceEdges(trace.steps),
          workflowData |-> wf,
          traceData |-> [trace EXCEPT !.steps = [i \in DOMAIN trace.steps |->
                               [trace.steps[i] EXCEPT !.node_name = "placed"]]]]

\* Lines 76-181: the arrays handed to setNodes / setEdges, and the props as
\* they are after the run.  The definition branch builds new objects with
\* map and spreads node.data into a new object (lines 79-109); the trace
\* branch builds newNodes / newEdges from the fields of the steps (lines
\* 119-170) and getLayoutedElements writes only into those new node objects
\* (lines 42-54): neither prop is written to.
IngestionResult(wf, trace) ==
    IF wf.id # NoId
    THEN [nodes |-> IngestNodes(wf), edges |-> IngestEdges(wf),
          workflowData |-> wf, traceData |-> trace]
    ELSE [nodes |-> TraceNodes(trace.steps), edges |-> TraceEdges(trace.steps),
          workflowData |-> wf, traceData |-> trace]

\* One run of the effect and the commit of the arrays it set.
IngestionEffect ==
    /\ appError = "none"
    /\ workflowData.id # NoId \/ traceData.present
    /\ steps < MaxIngestions
    /\ LET r == IngestionResult(workflowData, traceData)
       IN  /\ Install(GraphCommit([Component EXCEPT !.workflowData = r.workflowData,
                                                    !.nodes = r.nodes,
                                                    !.edges = r.edges]))
           /\ EditStepTrace("ingestion", "other", r.traceData)
    /\ FreshArrays(TRUE, TRUE)
    /\ KeepHost
    /\ UNCHANGED execVars

\* The component has been handed a definition, or a trace, and the effect
\* has not run yet.
InitIngest ==
    /\ \E d \in IngestDefinitions \cup {NoWorkflow} :
          /\ workflowData = d
          /\ selectedWorkflowId = d.id
          /\ currentGraphState = [nodes |-> d.nodes, edges |-> d.edges]
          /\ IF d.id # NoId
             THEN Mounted(NoWorkflow, NoTrace)
             ELSE \E t \in IngestTraces : Mounted(NoWorkflow, [steps |-> t, present |-> TRUE])
    /\ isDirty = FALSE
    /\ showUnsavedModal = FALSE
    /\ pendingWorkflowId = NoId
    /\ logs = <<>>
    /\ appError = "none"
    /\ ExecIdle
    /\ lastOp = "init"

NextIngest == IngestionEffect

SpecIngest == InitIngest /\ [][NextIngest]_vars

----------------------------------------------------------------------------
(* C27: nodes without a stored position *)

Unplaced(i) == workflowData.nodes[i].position = NoPosition

\* C27: after the ingestion of a definition every node with a stored
\* position has exactly that position, and the nodes without one have been
\* placed by the layout: no two of them are both at the origin.
C27_UnplacedNodesAreLaidOut ==
    (lastOp = "ingestion" /\ workflowData.id # NoId) =>
        /\ \A i \in DOMAIN nodes :
              ~Unplaced(i) => nodes[i].position = workflowData.nodes[i].position
        /\ \A i, j \in DOMAIN nodes :
              (i # j /\ Unplaced(i) /\ Unplaced(j)) =>
                  ~(nodes[i].position = <<0, 0>> /\ nodes[j].position = <<0, 0>>)

----------------------------------------------------------------------------
(* C28: ingestion twice on the same input *)

IdsOf(list) == [i \in DOMAIN list |-> list[i].id]

----------------------------------------------------------------------------
(* C29: a failed fetch of a definition *)

\* C29: when the fetch of a definition fails, the loaded definition, the
\* live graph, the history, the dirty flag, the logs and the record of the
\* selected workflow are as they were before the attempt.
C29_FailedLoadChangesNothing ==
    [][\A i \in DOMAIN loads :
          (lastOp' = "loadFail" /\ loads' = RemoveAt(loads, i)) =>
              /\ UNCHANGED <<workflowData, nodes, edges, history, historyIndex,
                             isDirty, logs>>
              /\ selectedWorkflowId' = loads[i].from]_vars

----------------------------------------------------------------------------
(* Specification SpecUndo: a definition is on screen; nodes are added,
   selected and deleted, and the history is walked. *)

\* App and AgentGraph as mounted (part_003 lines 59-66, part_000 lines 61-65).
FreshComponent ==
    [nodes |-> <<>>, edges |-> <<>>, history |-> <<>>, historyIndex |-> -1,
     isUndoRedoRef |-> FALSE, workflowData |-> NoWorkflow, isDirty |-> FALSE,
     currentGraphState |-> EmptyGraph, appError |-> "none"]

\* The state the first load of definition wf leaves (part_003 lines 166-178).
InitLoaded(wf) ==
    /\ \E c \in {LoadCommit(FreshComponent, wf)} :
          /\ nodes = c.nodes
          /\ edges = c.edges
          /\ history = c.history
          /\ historyIndex = c.historyIndex
          /\ isUndoRedoRef = c.isUndoRedoRef
          /\ workflowData = c.workflowData
          /\ isDirty = c.isDirty
          /\ currentGraphState = c.currentGraphState
          /\ appError = c.appError
    /\ selectedWorkflowId = wf.id
    /\ showUnsavedModal = FALSE
    /\ pendingWorkflowId = NoId
    /\ logs = <<>>
    /\ loads = <<>>
    /\ saves = <<>>
    /\ server = ServerCatalog
    /\ liveArrays = NoArrays
    /\ traceData = NoTrace
    /\ before = NoBefore
    /\ phase = "loaded"
    /\ steps = 0
    /\ ExecIdle
    /\ lastOp = "init"

InitUndo == \E wf \in ServerWorkflows : InitLoaded(wf)

NextUndo ==
    \/ \E tick \in 0 .. 1 : AddNode(tick)
    \/ \E i \in DOMAIN nodes : SelectNode(i)
    \/ DeleteGesture
    \/ Undo
    \/ Redo

SpecUndo == InitUndo /\ [][NextUndo]_vars

\* Specification SpecDelete: the nodes of a loaded definition are connected,
\* nodes and edges are selected, and the selection is deleted.
NextDelete ==
    \/ \E i, j \in DOMAIN nodes : OnConnect(i, j)
    \/ \E i \in DOMAIN nodes : SelectNode(i)
    \/ \E k \in DOMAIN edges : SelectEdge(k)
    \/ DeleteGesture

SpecDelete == InitUndo /\ [][NextDelete]_vars

----------------------------------------------------------------------------
(* C30: undo and redo leave the stored snapshots alone *)

\* The handlers that change the graph on a user's authoring gesture.
UserMutations == {"addNode", "drop", "connect", "delete"}

\* The last step was an undo or a redo that moved the cursor.
CursorJustMoved == lastOp \in {"undo", "redo"} /\ before.historyIndex # historyIndex

\* C30: an undo or redo that moves the cursor leaves the sequence of
\* snapshots as it is, moves the cursor by exactly one and leaves the
\* from-history flag cleared, and the next user mutation after it is
\* recorded as a snapshot.
C30_UndoRedoKeepSnapshots ==
    [][/\ (lastOp' \in {"undo", "redo"} /\ historyIndex' # historyIndex) =>
             /\ history' = history
             /\ historyIndex' = IF lastOp' = "undo" THEN historyIndex - 1
                                                    ELSE historyIndex + 1
             /\ ~isUndoRedoRef'
       /\ (CursorJustMoved /\ lastOp' \in UserMutations) =>
             /\ history' = Append(Slice(history, historyIndex + 1),
                                  Snapshot(nodes', edges'))
             /\ historyIndex' = historyIndex + 1]_vars

----------------------------------------------------------------------------
(* C31: presentational changes and the history *)

\* The changes React Flow reports that touch only the selected flag of a node
\* or an edge, or the position and dragging flag of a node being dragged.
PresentationalOps == {"selectNode", "selectEdge", "dragMove"}

\* C31: a change confined to presentational or transient state (selection,
\* the position of a drag in progress) appends no snapshot, does not move
\* the cursor and discards no redo entry.
C31_PresentationalChangesUnrecorded ==
    [][(lastOp' \in PresentationalOps) =>
          (history' = history /\ historyIndex' = historyIndex)]_vars

----------------------------------------------------------------------------
(* C32: positions after ingestion *)

\* The steps after which a node may stand elsewhere: a drag of the node, and
\* the history and load operations that replace the graph.
RepositioningOps == {"dragMove", "dragStop", "undo", "redo", "load"}

Placement(ns) == [i \in DOMAIN ns |-> <<ns[i].id, ns[i].position>>]

\* Every node of the new graph that was in the graph before the step stands
\* where it stood: after a deletion the nodes whose id was not selected, in
\* order; otherwise the node at the same place of the array.
PositionsKept ==
    IF lastOp' = "delete"
    THEN LET Stays(n) == n.id \notin SelectedNodeIds(nodes)
         IN  Placement(nodes') = Placement(SelectSeq(nodes, Stays))
    ELSE \A i \in DOMAIN nodes \cap DOMAIN nodes' :
            nodes'[i].id = nodes[i].id => nodes'[i].position = nodes[i].position

\* C32: no step other than a drag, an undo / redo or a load changes the
\* position of a node that was already in the graph: edits do not lay the
\* graph out again, and a dragged position stays as set.
C32_PositionsStayAsSet ==
    [][(lastOp' \notin RepositioningOps) => PositionsKept]_vars

----------------------------------------------------------------------------
(* C33: the history across loads *)

\* The snapshot of definition wf as ingested.
LoadedSnapshot(wf) == Snapshot(IngestNodes(wf), IngestEdges(wf))

\* C33: after the load of a definition the snapshots that undo / redo can
\* reach are states of that definition: the first snapshot is its loaded
\* graph (none of an earlier workflow is kept in front of it).
C33_HistoryStartsAtLoadedGraph ==
    [][(lastOp' = "load" /\ Len(workflowData'.nodes) > 0) =>
          /\ history' # <<>>
          /\ history'[1] = LoadedSnapshot(workflowData')]_vars

----------------------------------------------------------------------------
(* C34: edits made while a save is in flight *)

\* The live graph has other nodes or edges than the save request i carries:
\* a node or an edge was added or removed after the request was sent.
EditedSinceSave(i) ==
    \/ IdsOf(nodes) # IdsOf(saves[i].wf.nodes)
    \/ IdsOf(edges) # IdsOf(saves[i].wf.edges)

\* C34: a mutation made after a save request was sent and before its
\* response is processed is still in the live graph after the save has
\* completed, and the dirty flag is then true.
C34_SaveKeepsLaterEdits ==
    [][\A i \in DOMAIN saves :
          (lastOp' = "saveOk" /\ saves' = RemoveAt(saves, i) /\ EditedSinceSave(i)) =>
              /\ IdsOf(nodes') = IdsOf(nodes)
              /\ IdsOf(edges') = IdsOf(edges)
              /\ isDirty']_vars

----------------------------------------------------------------------------
(* Specification SpecRace: workflows are selected while a load is still in
   flight, and every fetch is answered. *)

MaxRacingLoads == 2     \* fetches of definitions outstanding at once

\* App.handleSelectWorkflow and loadWorkflow up to the fetch (part_003 lines
\* 154-170) while an earlier fetch is outstanding and the graph is clean:
\* nothing waits for, or cancels, the earlier fetch.
SelectWhileLoading(id) ==
    /\ appError = "none"
    /\ selectedWorkflowId # id
    /\ ~isDirty
    /\ loads # <<>>
    /\ Len(loads) < MaxRacingLoads
    /\ selectedWorkflowId' = id
    /\ loads' = Append(loads, [id |-> id, via |-> "select", from |-> selectedWorkflowId])
    /\ EditStep("selectWorkflow", "other")
    /\ KeepComponent
    /\ UNCHANGED <<pendingWorkflowId, showUnsavedModal, logs, saves, server, execVars>>

NextRace ==
    \/ \E id \in WorkflowIds : SelectWorkflow(id)
    \/ \E id \in WorkflowIds : SelectWhileLoading(id)
    \/ \E i \in DOMAIN loads : LoadResponseOk(i)
    \/ \E tick \in 0 .. 1 : AddNode(tick)

SpecRace == InitEdit /\ [][NextRace]_vars

----------------------------------------------------------------------------
(* C35: two loads in flight *)

\* C35: once the responses of the loads in flight have all been processed
\* the loaded definition is the workflow selected last, whatever the order
\* of the responses, and a load response never replaces a live graph that
\* is dirty.
C35_LastSelectionWins ==
    [][(lastOp' = "load") =>
          /\ (loads' = <<>>) => workflowData'.id = selectedWorkflowId'
          /\ ~isDirty]_vars

----------------------------------------------------------------------------
(* C36: what a successful save changes *)

\* C36: a successful save leaves the live nodes and edges, the stored
\* snapshots and the cursor as they were: it appends no snapshot and
\* discards no redo entry.
C36_SaveLeavesGraphAndHistory ==
    [][(lastOp' = "saveOk") =>
          /\ Plain(LiveGraph') = Plain(LiveGraph)
          /\ history' = history
          /\ historyIndex' = historyIndex]_vars

----------------------------------------------------------------------------
(* Specification SpecStop: two executions, started one poll period apart,
   are followed until both caps have passed.  Status requests are answered,
   fail, or never return. *)

StopLimits == [executions |-> 2, inflight |-> 1,
               horizon |-> CapMs + PollIntervalMs, startBy |-> PollIntervalMs]

\* Lines 342-344: the interval fires and the status request it sends never
\* returns: the await in the callback does not resume.
PollTickLost(e) ==
    /\ TickDue(e)
    /\ executions' = [executions EXCEPT ![e].nextTick = @ + PollIntervalMs]
    /\ lastOp' = "pollTickLost"
    /\ lastPoll' = NoPoll
    /\ UNCHANGED <<uiVars, payload, now, submitting, inflight>>

MaxAnswerTicks == 2     \* poll periods in which the server answers in SpecStop

\* The answer to a status request, without log entries.  The server answers
\* during the first poll periods; later every status request fails or is lost.
StatusResponse ==
    \E i \in DOMAIN inflight :
        \/ /\ now <= MaxAnswerTicks * PollIntervalMs
           /\ \E st \in PollStates : PollResponseOk(i, st, 0)
        \/ PollResponseFail(i)

\* An interval that is due fires.
IntervalFires == \E e \in ExecIds : PollTick(e, StopLimits) \/ PollTickLost(e)

CapFires == \E e \in ExecIds : CapFire(e)

ExecuteResponse == ExecuteResponseOk \/ ExecuteResponseFail

NextStop ==
    \/ TriggerWorkflow(StopLimits)
    \/ ExecuteResponse
    \/ IntervalFires
    \/ StatusResponse
    \/ CapFires
    \/ AdvanceTime(StopLimits)

\* Timers fire when due, the execute request is answered, and time passes:
\* only finitely many run actions fall into one poll period.  Nothing is
\* assumed of the status requests.
FairStop ==
    /\ SF_vars(AdvanceTime(StopLimits))
    /\ WF_vars(IntervalFires)
    /\ WF_vars(CapFires)
    /\ WF_vars(ExecuteResponse)

SpecStop == InitCap /\ [][NextStop]_vars /\ FairStop

----------------------------------------------------------------------------
(* C37: every poll timer is stopped *)

\* The poll timers other than that of execution e are as they were.
OtherTimersKept(e) ==
    \A f \in ExecIds : f # e => executions'[f].timer = executions[f].timer

\* C37: every poll timer that is started is eventually stopped, by a
\* terminal response or by the cap timer of its own execution, whatever
\* becomes of the status requests; and the cap timer of an execution stops
\* no poll timer but its own.
C37_EveryPollTimerStops ==
    /\ \A e \in 1 .. StopLimits.executions :
          (e \in ExecIds /\ executions[e].timer) ~> (e \in ExecIds /\ ~executions[e].timer)
    /\ [][\A e \in ExecIds :
             (lastOp' = "capFire" /\ executions[e].cap /\ ~executions'[e].cap) =>
                 (~executions'[e].timer /\ OtherTimersKept(e))]_vars

\* The cap timer of one execution has stopped its polling, no status request
\* having reported an end, while the other execution is still polled.
C37_Witness ==
    /\ lastOp = "capFire"
    /\ \E e, f \in ExecIds :
          /\ ~executions[e].cap
          /\ ~executions[e].timer
          /\ executions[e].finished = "none"
          /\ executions[f].timer

----------------------------------------------------------------------------
(* C38: the handlers of text-input nodes after undo / redo *)

\* The text-input node carries data.onTextChange and data.onTrigger.
CarriesHandlers(n) == n.handlers /\ n.onTrigger # "none"

\* C38: after undo or redo every text-input node of the live graph still
\* carries its text-change and run handlers.
C38_HandlersSurviveUndoRedo ==
    [][(lastOp' \in {"undo", "redo"}) =>
          \A i \in DOMAIN nodes' :
              nodes'[i].type = "textInput" => CarriesHandlers(nodes'[i])]_vars

----------------------------------------------------------------------------
(* C39: Run on a text-input node of a loaded workflow *)

\* C39: pressing Run on a text-input node of a loaded workflow, whether the
\* node came from the definition or was dropped after the load, submits
\* under the loaded workflow: it is never rejected for want of a workflow and
\* never submits under another one.
C39_RunSubmitsLoadedWorkflow ==
    [][(lastOp' \in {"run", "runNoWorkflow"} /\ workflowData.id # NoId) =>
          /\ lastOp' = "run"
          /\ payload'.id = workflowData.id]_vars

----------------------------------------------------------------------------
(* C40: the dirty check on a definition with unplaced nodes *)

\* C40: the dirty check reaches a decision for every loaded definition, and
\* the load of a definition that holds a node without a stored position
\* raises no error and leaves the dirty flag false.
C40_DirtyCheckIsTotal ==
    (lastOp = "ingestion" /\ workflowData.id # NoId) =>
        /\ appError = "none"
        /\ (\E i \in DOMAIN workflowData.nodes : Unplaced(i)) => ~isDirty

====
